---- MODULE Spec2Model ----
(***************************************************************************)
(* A model of src/libaktualizr/crypto/crypto.cc: typed public keys, RSA-PSS *)
(* and Ed25519 signing and verification, key fingerprints and hashing.      *)
(*                                                                          *)
(* A std::string is a sequence of integers.  Values 0..255 are bytes (the   *)
(* ASCII code for text).  A value of 1000000 and more stands for one whole  *)
(* PEM block ("-----BEGIN ...-----" to "-----END ...-----"), which no       *)
(* operation of this file ever splits.                                      *)
(*                                                                          *)
(* The primitives of libsodium and OpenSSL are idealised: a digest is a     *)
(* deterministic function that is collision-free on the bounded inputs, an  *)
(* RSA transform is a keyed permutation of the byte string, an Ed25519      *)
(* signature is the one string the matching secret key produces.  The PSS   *)
(* encoding keeps its layout (padding zeros, 0x01, salt, H, 0xbc); the MGF1 *)
(* mask, which both sides apply, is left out.  Memory exhaustion is not     *)
(* modelled.                                                                *)
(***************************************************************************)
EXTENDS Integers, Sequences, FiniteSets, TLC

----------------------------------------------------------------------------
(* Bounds of the model.                                                     *)

\* Key material: key pairs 1..NumKeys of every kind.
NumKeys == 2
\* Messages are the byte strings over {0, 1} of at most this length.
MaxMsgLen == 1
\* Key values are tried with 0..MaxNewlines trailing "\n" characters.
MaxNewlines == 2
\* Foreign PSS signers use every salt length 0..SaltSweep (and the lengths
\* around the digest length and the maximum, see SaltLens).
SaltSweep == 2
\* The block of Hash::generate's buffer: 64 * 1024 bytes in the source, this
\* many in the model.  Streams are the byte strings over {0, 1} of at most
\* two blocks and one byte.
BlockSize == 2

----------------------------------------------------------------------------
(* Strings.                                                                 *)

Rep(b, n) == [i \in 1..n |-> b]

Min(S) == CHOOSE i \in S : \A j \in S : i <= j

Max(S) == CHOOSE i \in S : \A j \in S : i >= j

\* ::tolower / ::toupper on one character
tolower(c) == IF c \in 65..90 THEN c + 32 ELSE c

toupper(c) == IF c \in 97..122 THEN c - 32 ELSE c

\* std::transform(s.begin(), s.end(), s.begin(), ::tolower), to_lower_copy
to_lower(s) == [i \in 1..Len(s) |-> tolower(s[i])]

\* boost::algorithm::to_upper_copy
to_upper(s) == [i \in 1..Len(s) |-> toupper(s[i])]

\* boost::algorithm::trim_right_if(s, is_any_of("\n")): drops the longest
\* suffix of "\n" (10) characters.
trim_right_newlines(s) ==
  LET keep == {i \in 1..Len(s) : s[i] # 10}
  IN  IF keep = {} THEN <<>> ELSE SubSeq(s, 1, Max(keep))

\* The byte strings over {0, 1} of length at most n.
BitStrings(n) == UNION {[1..k -> {0, 1}] : k \in 0..n}

----------------------------------------------------------------------------
(* boost::algorithm::hex / unhex.                                           *)

HexDigit(n) == IF n < 10 THEN 48 + n ELSE 55 + n

\* boost::algorithm::hex: two upper-case digits per byte.
hex(bytes) ==
  [i \in 1..(2 * Len(bytes)) |->
     IF i % 2 = 1 THEN HexDigit(bytes[(i + 1) \div 2] \div 16)
                  ELSE HexDigit(bytes[i \div 2] % 16)]

IsHexChar(c) == c \in 48..57 \/ c \in 65..70 \/ c \in 97..102

HexVal(c) == IF c \in 48..57 THEN c - 48
             ELSE IF c \in 65..70 THEN c - 55 ELSE c - 87

\* boost::algorithm::unhex: throws hex_decode_error (non_hex_input for a
\* character that is no hex digit, not_enough_input for an odd length).
unhex(text) ==
  IF Len(text) % 2 = 1 \/ \E i \in 1..Len(text) : ~IsHexChar(text[i])
  THEN [thrown |-> TRUE, val |-> <<>>]
  ELSE [thrown |-> FALSE,
        val |-> [i \in 1..(Len(text) \div 2) |->
                   16 * HexVal(text[2 * i - 1]) + HexVal(text[2 * i])]]

----------------------------------------------------------------------------
(* Utils (utilities/utils.cc): base64 and canonical JSON.                   *)

B64Char(v) == IF v < 26 THEN 65 + v
              ELSE IF v < 52 THEN 71 + v
              ELSE IF v < 62 THEN v - 4
              ELSE IF v = 62 THEN 43 ELSE 47

B64Val(c) == IF c \in 65..90 THEN c - 65
             ELSE IF c \in 97..122 THEN c - 71
             ELSE IF c \in 48..57 THEN c + 4
             ELSE IF c = 43 THEN 62 ELSE 63

\* Text that is base64: a multiple of four characters of the alphabet, with
\* at most two "=" (61) at the end.
IsBase64(text) ==
  /\ Len(text) % 4 = 0
  /\ \A i \in 1..Len(text) :
       \/ text[i] \in 65..90 \/ text[i] \in 97..122 \/ text[i] \in 48..57
       \/ text[i] \in {43, 47}
       \/ (text[i] = 61 /\ i >= Len(text) - 1)
  /\ (Len(text) > 0 /\ text[Len(text) - 1] = 61) => text[Len(text)] = 61

\* Utils::toBase64
toBase64(bytes) ==
  LET n == Len(bytes)
      at(i) == IF i <= n THEN bytes[i] ELSE 0
      quad(g, k) ==
        LET a == at(3 * g - 2)
            b == at(3 * g - 1)
            c == at(3 * g)
        IN  IF k = 1 THEN B64Char(a \div 4)
            ELSE IF k = 2 THEN B64Char((a % 4) * 16 + b \div 16)
            ELSE IF k = 3 THEN (IF 3 * g - 1 > n THEN 61
                                ELSE B64Char((b % 16) * 4 + c \div 64))
            ELSE (IF 3 * g > n THEN 61 ELSE B64Char(c % 64))
  IN  [i \in 1..(4 * ((n + 2) \div 3)) |-> quad((i + 3) \div 4, ((i - 1) % 4) + 1)]

\* Utils::fromBase64, on text that IsBase64: "=" counts as padding and
\* decodes as "A"; the padding's bytes are erased from the end.
fromBase64(text) ==
  LET pad == Cardinality({i \in 1..Len(text) : text[i] = 61})
      v(i) == IF text[i] = 61 THEN 0 ELSE B64Val(text[i])
      byte(j) ==
        LET g == (j + 2) \div 3
            k == ((j - 1) % 3) + 1
            a == v(4 * g - 3)
            b == v(4 * g - 2)
            c == v(4 * g - 1)
            d == v(4 * g)
        IN  IF k = 1 THEN a * 4 + b \div 16
            ELSE IF k = 2 THEN (b % 16) * 16 + c \div 4
            ELSE (c % 4) * 64 + d
  IN  [j \in 1..(3 * (Len(text) \div 4) - pad) |-> byte(j)]

\* Utils::jsonToCanonicalStr(Json::Value(s)): the string in double quotes
\* (34), with "\n" written as the two characters \ (92) and n (110).
RECURSIVE jsonEscape(_)
jsonEscape(s) ==
  IF s = <<>> THEN <<>>
  ELSE (IF s[1] = 10 THEN <<92, 110>>
        ELSE IF s[1] \in {34, 92} THEN <<92, s[1]>>
        ELSE <<s[1]>>) \o jsonEscape(Tail(s))

jsonToCanonicalStr(s) == <<34>> \o jsonEscape(s) \o <<34>>

----------------------------------------------------------------------------
(* Digests (libsodium).                                                     *)

crypto_hash_sha256_BYTES == 32

crypto_hash_sha512_BYTES == 64

\* The idealised compression of a string to a number.
RECURSIVE Mix(_)
Mix(d) ==
  IF Len(d) = 0 THEN 7
  ELSE IF Len(d) = 1 THEN (d[1] + 11) % 1000003
  ELSE LET h == Len(d) \div 2
       IN  (Mix(SubSeq(d, 1, h)) * 131 + Mix(SubSeq(d, h + 1, Len(d))) * 17
              + Len(d)) % 1000003

\* A digest of n bytes: the compressed input, its length, and as much of the
\* input itself as fits, so that short inputs never collide.
DigestBytes(d, n) ==
  LET h == Mix(d)
  IN  [i \in 1..n |-> IF i = 1 THEN h % 256
                      ELSE IF i = 2 THEN (h \div 256) % 256
                      ELSE IF i = 3 THEN (h \div 65536) % 256
                      ELSE IF i = 4 THEN Len(d) % 256
                      ELSE IF i - 4 <= Len(d) THEN d[i - 4] % 256
                      ELSE (i * 7) % 256]

\* crypto_hash_sha256
crypto_hash_sha256(text) == DigestBytes(<<2>> \o text, crypto_hash_sha256_BYTES)

\* crypto_hash_sha512
crypto_hash_sha512(text) == DigestBytes(<<5>> \o text, crypto_hash_sha512_BYTES)

\* Crypto::sha256digest
sha256digest(text) == crypto_hash_sha256(text)

\* Crypto::sha512digest
sha512digest(text) == crypto_hash_sha512(text)

----------------------------------------------------------------------------
(* PEM text and RSA keys (OpenSSL).                                         *)

KeyIds == 1..NumKeys

\* A "PUBLIC KEY" block holding the public half of RSA key (bits, id).
PemPub(bits, id) == 1000000 + bits * 10 + id

\* A private-key block holding RSA key (bits, id).
PemPriv(bits, id) == 2000000 + bits * 10 + id

\* A private-key block holding a key that is not RSA.
PemPrivOther(id) == 3000000 + id

\* A "PUBLIC KEY" block holding a key that is not RSA.
PemPubOther(id) == 4000000 + id

IsPublicKeyBlock(a) == a \in 1000000..1999999 \/ a \in 4000000..4999999

IsPrivateKeyBlock(a) == a \in 2000000..3999999

PemBits(a) == (a % 1000000) \div 10

PemId(a) == a % 10

\* A null RSA * or EVP_PKEY *.
NullKey == [null |-> TRUE, rsa |-> FALSE, bits |-> 0, id |-> 0]

RsaKey(bits, id) == [null |-> FALSE, rsa |-> TRUE, bits |-> bits, id |-> id]

OtherKey(id) == [null |-> FALSE, rsa |-> FALSE, bits |-> 0, id |-> id]

\* PEM_read_bio_RSA_PUBKEY: the first "PUBLIC KEY" block of the text, as an
\* RSA key; null when there is none or it holds no RSA key.
PEM_read_bio_RSA_PUBKEY(text) ==
  LET blocks == {i \in 1..Len(text) : IsPublicKeyBlock(text[i])}
  IN  IF blocks = {} THEN NullKey
      ELSE LET a == text[Min(blocks)]
           IN  IF a >= 4000000 THEN NullKey ELSE RsaKey(PemBits(a), PemId(a))

\* PEM_read_bio_PrivateKey: the first private-key block of the text, as an
\* EVP_PKEY; null when there is none.
PEM_read_bio_PrivateKey(text) ==
  LET blocks == {i \in 1..Len(text) : IsPrivateKeyBlock(text[i])}
  IN  IF blocks = {} THEN NullKey
      ELSE LET a == text[Min(blocks)]
           IN  IF a >= 3000000 THEN OtherKey(PemId(a))
               ELSE RsaKey(PemBits(a), PemId(a))

\* EVP_PKEY_get1_RSA: null for a key that is not RSA.
EVP_PKEY_get1_RSA(pkey) == IF pkey.null \/ ~pkey.rsa THEN NullKey ELSE pkey

\* RSA_size: the modulus size in bytes.
RSA_size(rsa) == (rsa.bits + 7) \div 8

\* BN_num_bits of the modulus.
RSA_bits(rsa) == rsa.bits

\* The keyed permutation standing for the RSA transform with key (bits, id).
KeyShift(rsa) == 1 + ((rsa.id * 16 + rsa.bits) % 255)

\* RSA_private_encrypt(RSA_size, EM, out, rsa, RSA_NO_PADDING)
RSA_private_encrypt(EM, rsa) ==
  [i \in 1..Len(EM) |-> (EM[i] + KeyShift(rsa)) % 256]

\* RSA_public_decrypt(flen, sig, out, rsa, RSA_NO_PADDING): -1 for an input
\* longer than the modulus; a shorter one counts as a number, with leading
\* zero bytes.
RSA_public_decrypt(sig, rsa) ==
  LET n == RSA_size(rsa)
  IN  IF Len(sig) > n THEN [status |-> -1, out |-> <<>>]
      ELSE LET padded == Rep(0, n - Len(sig)) \o sig
           IN  [status |-> n,
                out |-> [i \in 1..n |-> (padded[i] + 256 - KeyShift(rsa)) % 256]]

\* The M' hash of PSS: Hash(0x00 * 8 || mHash || salt).
PSSHash(mHash, salt) == crypto_hash_sha256(Rep(0, 8) \o mHash \o salt)

\* RSA_padding_add_PKCS1_PSS(rsa, EM, mHash, EVP_sha256(), sLen), the salt
\* being sLen bytes of value rnd.  sLen -1: the digest length; -2: the
\* longest salt that fits.
RSA_padding_add_PKCS1_PSS(rsa, mHash, sLenArg, rnd) ==
  LET hLen   == crypto_hash_sha256_BYTES
      MSBits == (RSA_bits(rsa) - 1) % 8
      emLen  == IF MSBits = 0 THEN RSA_size(rsa) - 1 ELSE RSA_size(rsa)
      lead   == IF MSBits = 0 THEN <<0>> ELSE <<>>
      sLen   == IF sLenArg = -1 THEN hLen
                ELSE IF sLenArg = -2 THEN emLen - hLen - 2 ELSE sLenArg
  IN  IF sLenArg < -2 \/ emLen < hLen + 2 \/ sLen > emLen - hLen - 2
      THEN [status |-> 0, EM |-> <<>>]
      ELSE LET salt == Rep(rnd, sLen)
           IN  [status |-> 1,
                EM |-> lead \o Rep(0, emLen - sLen - hLen - 2) \o <<1>> \o salt
                         \o PSSHash(mHash, salt) \o <<188>>]

\* RSA_verify_PKCS1_PSS(rsa, mHash, EVP_sha256(), EM, sLen) = 1.  sLen -1:
\* the salt must be as long as the digest; -2: its length is recovered from
\* the encoding.
RSA_verify_PKCS1_PSS(rsa, mHash, EMin, sLenArg) ==
  LET hLen   == crypto_hash_sha256_BYTES
      MSBits == (RSA_bits(rsa) - 1) % 8
      emLen  == IF MSBits = 0 THEN RSA_size(rsa) - 1 ELSE RSA_size(rsa)
      EM     == IF MSBits = 0 THEN Tail(EMin) ELSE EMin
      sLen   == IF sLenArg = -1 THEN hLen ELSE sLenArg
      dbLen  == emLen - hLen - 1
      DB     == SubSeq(EM, 1, dbLen)
      H      == SubSeq(EM, dbLen + 1, dbLen + hLen)
      j      == Min({k \in 1..(dbLen - 1) : DB[k] # 0} \cup {dbLen})
      salt   == SubSeq(DB, j + 1, dbLen)
  IN  /\ sLenArg >= -2
      /\ Len(EMin) = RSA_size(rsa)
      /\ EMin[1] < 2 ^ MSBits
      /\ emLen >= hLen + 2
      /\ sLen >= 0 => sLen <= emLen - hLen - 2
      /\ EM[emLen] = 188
      /\ DB[j] = 1
      /\ sLen >= 0 => dbLen - j = sLen
      /\ PSSHash(mHash, salt) = H

----------------------------------------------------------------------------
(* Ed25519 (libsodium).                                                     *)

crypto_sign_PUBLICKEYBYTES == 32

crypto_sign_SECRETKEYBYTES == 64

crypto_sign_BYTES == 64

EdSeed(id) == [i \in 1..(crypto_sign_SECRETKEYBYTES - crypto_sign_PUBLICKEYBYTES)
                 |-> (id * 40 + i) % 256]

EdPublic(id) == [i \in 1..crypto_sign_PUBLICKEYBYTES |-> (id * 16 + 3 * i) % 256]

\* crypto_sign_keypair, for the key pair the random generator picks.
crypto_sign_keypair(id) == [pk |-> EdPublic(id), sk |-> EdSeed(id) \o EdPublic(id)]

\* crypto_sign_detached(sig, nullptr, m, mlen, sk): reads the
\* crypto_sign_SECRETKEYBYTES bytes at sk; deterministic.
crypto_sign_detached(m, sk) ==
  LET half == crypto_sign_BYTES \div 2
      seed == SubSeq(sk, 1, crypto_sign_SECRETKEYBYTES - crypto_sign_PUBLICKEYBYTES)
      pk   == SubSeq(sk, Len(seed) + 1, crypto_sign_SECRETKEYBYTES)
  IN  DigestBytes(<<82>> \o m \o seed, half) \o DigestBytes(<<83>> \o m \o pk, half)

\* crypto_sign_verify_detached(sig, m, mlen, pk) = 0: reads crypto_sign_BYTES
\* bytes at sig and crypto_sign_PUBLICKEYBYTES bytes at pk.
crypto_sign_verify_detached(sig, m, pk) ==
  \E id \in KeyIds :
     /\ SubSeq(pk, 1, crypto_sign_PUBLICKEYBYTES) = EdPublic(id)
     /\ SubSeq(sig, 1, crypto_sign_BYTES) = crypto_sign_detached(m, crypto_sign_keypair(id).sk)

----------------------------------------------------------------------------
(* Crypto: signing and verification.                                        *)

KeyTypes == {"kED25519", "kRSA2048", "kRSA3072", "kRSA4096", "kUnknown"}

\* An ENGINE * argument.  null: no engine (a software key).  Otherwise pkey
\* is what ENGINE_load_private_key returns for the key name, and fails says
\* whether the engine's private-key transform fails.
NoEngine == [null |-> TRUE, pkey |-> NullKey, fails |-> FALSE]

Engine(pkey, fails) == [null |-> FALSE, pkey |-> pkey, fails |-> fails]

ENGINE_load_private_key(engine, name) == engine.pkey

\* The status of RSA_private_encrypt: -1 when the engine's transform fails.
RSA_private_encrypt_status(engine, rsa) ==
  IF ~engine.null /\ engine.fails THEN -1 ELSE RSA_size(rsa)

\* Crypto::ED25519Sign
ED25519Sign(private_key, message) == crypto_sign_detached(message, private_key)

\* RSAPSSSign with the status of RSA_private_encrypt ignored.
RSAPSSSign_StatusIgnored(engine, private_key, message, rnd) ==
  LET key == IF ~engine.null THEN ENGINE_load_private_key(engine, private_key)
             ELSE PEM_read_bio_PrivateKey(private_key)
      rsa == IF key.null THEN NullKey ELSE EVP_PKEY_get1_RSA(key)
  IN  IF rsa.null THEN <<>>
      ELSE LET pad == RSA_padding_add_PKCS1_PSS(rsa, sha256digest(message), -1, rnd)
           IN  IF pad.status = 0 THEN <<>>
               ELSE RSA_private_encrypt(pad.EM, rsa)

\* Crypto::RSAPSSSign.  rnd is the random salt byte.
RSAPSSSign(engine, private_key, message, rnd) ==
  LET key == IF ~engine.null THEN ENGINE_load_private_key(engine, private_key)
             ELSE PEM_read_bio_PrivateKey(private_key)
      rsa == IF key.null THEN NullKey ELSE EVP_PKEY_get1_RSA(key)
  IN  IF rsa.null THEN <<>>
      ELSE LET digest == sha256digest(message)
               pad    == RSA_padding_add_PKCS1_PSS(rsa, digest, -1, rnd)
           IN  IF pad.status = 0 THEN <<>>
               ELSE IF RSA_private_encrypt_status(engine, rsa) = -1 THEN <<>>
               ELSE RSA_private_encrypt(pad.EM, rsa)

\* Crypto::Sign.  thrown: unhex raised hex_decode_error.
Sign(key_type, engine, private_key, message, rnd) ==
  IF key_type = "kED25519"
  THEN LET u == unhex(private_key)
       IN  IF u.thrown THEN [thrown |-> TRUE, val |-> <<>>]
           ELSE [thrown |-> FALSE, val |-> ED25519Sign(u.val, message)]
  ELSE [thrown |-> FALSE, val |-> RSAPSSSign(engine, private_key, message, rnd)]

\* RSAPSSVerify with the digest of the empty string instead of the message's.
RSAPSSVerify_NoMessage(public_key, signature, message) ==
  LET rsa == PEM_read_bio_RSA_PUBKEY(public_key)
  IN  IF rsa.null THEN FALSE
      ELSE LET dec == RSA_public_decrypt(signature, rsa)
           IN  IF dec.status = -1 THEN FALSE
               ELSE RSA_verify_PKCS1_PSS(rsa, sha256digest(<<>>), dec.out, -2)

\* RSAPSSVerify with salt length -1 (the digest length) instead of -2.
RSAPSSVerify_DigestSalt(public_key, signature, message) ==
  LET rsa == PEM_read_bio_RSA_PUBKEY(public_key)
  IN  IF rsa.null THEN FALSE
      ELSE LET dec == RSA_public_decrypt(signature, rsa)
           IN  IF dec.status = -1 THEN FALSE
               ELSE RSA_verify_PKCS1_PSS(rsa, sha256digest(message), dec.out, -1)

\* Crypto::RSAPSSVerify
RSAPSSVerify(public_key, signature, message) ==
  LET rsa == PEM_read_bio_RSA_PUBKEY(public_key)
  IN  IF rsa.null THEN FALSE
      ELSE LET dec == RSA_public_decrypt(signature, rsa)
           IN  IF dec.status = -1 THEN FALSE
               ELSE LET digest == sha256digest(message)
                    IN  RSA_verify_PKCS1_PSS(rsa, digest, dec.out, -2)

\* Crypto::ED25519Verify
ED25519Verify(public_key, signature, message) ==
  IF Len(public_key) < crypto_sign_PUBLICKEYBYTES \/ Len(signature) < crypto_sign_BYTES
  THEN FALSE
  ELSE crypto_sign_verify_detached(signature, message, public_key)

----------------------------------------------------------------------------
(* Crypto: key identification and key-pair generation.                      *)

\* Crypto::IsRsaKeyType
IsRsaKeyType(type) == type \in {"kRSA2048", "kRSA3072", "kRSA4096"}

\* Crypto::IdentifyRSAKeyType
IdentifyRSAKeyType(public_key_pem) ==
  LET rsa == PEM_read_bio_RSA_PUBKEY(public_key_pem)
  IN  IF rsa.null THEN "kUnknown"
      ELSE LET key_length == RSA_size(rsa) * 8
           IN  CASE key_length = 2048 -> "kRSA2048"
                 [] key_length = 3072 -> "kRSA3072"
                 [] key_length = 4096 -> "kRSA4096"
                 [] OTHER -> "kUnknown"

\* Crypto::generateRSAKeyPairEVP(KeyType), then (int): the key the random
\* generator picks, null for a type that is not RSA; thrown when the random
\* generator is not seeded.
generateRSAKeyPairEVP(key_type, id, seeded) ==
  LET bits == CASE key_type = "kRSA2048" -> 2048
                [] key_type = "kRSA3072" -> 3072
                [] key_type = "kRSA4096" -> 4096
                [] OTHER -> 0
  IN  IF bits = 0 THEN [thrown |-> FALSE, pkey |-> NullKey]
      ELSE IF ~seeded THEN [thrown |-> TRUE, pkey |-> NullKey]
      ELSE [thrown |-> FALSE, pkey |-> RsaKey(bits, id)]

NoKeyPair == [thrown |-> FALSE, ok |-> FALSE, public_key |-> <<>>, private_key |-> <<>>]

\* Crypto::generateRSAKeyPair: both halves as PEM text.
generateRSAKeyPair(key_type, id, seeded) ==
  LET g == generateRSAKeyPairEVP(key_type, id, seeded)
  IN  IF g.thrown THEN [NoKeyPair EXCEPT !.thrown = TRUE]
      ELSE IF g.pkey.null THEN NoKeyPair
      ELSE [thrown |-> FALSE, ok |-> TRUE,
            public_key  |-> <<PemPub(g.pkey.bits, g.pkey.id), 10>>,
            private_key |-> <<PemPriv(g.pkey.bits, g.pkey.id), 10>>]

\* Crypto::generateEDKeyPair: both halves in upper-case hex.
generateEDKeyPair(id) ==
  LET kp == crypto_sign_keypair(id)
  IN  [thrown |-> FALSE, ok |-> TRUE,
       public_key |-> hex(kp.pk), private_key |-> hex(kp.sk)]

\* Crypto::generateKeyPair
generateKeyPair(key_type, id, seeded) ==
  IF key_type = "kED25519" THEN generateEDKeyPair(id)
  ELSE generateRSAKeyPair(key_type, id, seeded)

----------------------------------------------------------------------------
(* PublicKey.                                                               *)

\* Json::Value.  A scalar is [t, s]: its type and, for a string, its text.
JString(s) == [t |-> "string", s |-> s]

JNull == [t |-> "null", s |-> <<>>]

JInt == [t |-> "int", s |-> <<>>]

\* The keyval member: an object with a member "public", or something else.
JKeyval(public) == [t |-> "object", public |-> public]

JNotObject(t) == [t |-> t, public |-> JNull]

\* The document: an object with members keytype and keyval, or a value of
\* another type t (null, array, ...).
JKey(keytype, keyval) == [t |-> "object", keytype |-> keytype, keyval |-> keyval]

JOther(t) == [t |-> t, keytype |-> JNull, keyval |-> JNotObject("null")]

\* Utils::readFile: the content of the file, or an exception when it cannot
\* be read.
readFile(file) == [thrown |-> ~file.exists, val |-> file.content]

\* The result of a constructor: the object's fields, unless it threw.
Constructed(value, type) == [thrown |-> FALSE, value |-> value, type |-> type]

ConstructorThrew == [thrown |-> TRUE, value |-> <<>>, type |-> "kUnknown"]

\* PublicKey::PublicKey(const boost::filesystem::path &)
PublicKeyFromPath(file) ==
  LET r == readFile(file)
  IN  IF r.thrown THEN ConstructorThrew
      ELSE Constructed(r.val, IdentifyRSAKeyType(r.val))

\* The Json constructor without the std::transform to lower case.
PublicKeyFromJson_CaseSensitive(uptane_json) ==
  IF \/ uptane_json.t # "object"
     \/ uptane_json.keytype.t # "string"
     \/ uptane_json.keyval.t # "object"
     \/ uptane_json.keyval.public.t # "string"
  THEN Constructed(<<>>, "kUnknown")
  ELSE LET keytype  == uptane_json.keytype.s
           keyvalue == uptane_json.keyval.public.s
       IN  Constructed(keyvalue,
             IF keytype = <<101, 100, 50, 53, 53, 49, 57>> THEN "kED25519"
             ELSE IF keytype = <<114, 115, 97>> THEN IdentifyRSAKeyType(keyvalue)
             ELSE "kUnknown")

\* PublicKey::PublicKey(const Json::Value &).  A document that is no object
\* and not null makes operator[] throw, which the constructor catches; a
\* null one has null members.  "ed25519" is 101 100 50 53 53 49 57 and "rsa"
\* is 114 115 97.
PublicKeyFromJson(uptane_json) ==
  IF \/ uptane_json.t # "object"
     \/ uptane_json.keytype.t # "string"
     \/ uptane_json.keyval.t # "object"
     \/ uptane_json.keyval.public.t # "string"
  THEN Constructed(<<>>, "kUnknown")
  ELSE LET keytype  == to_lower(uptane_json.keytype.s)
           keyvalue == uptane_json.keyval.public.s
       IN  Constructed(keyvalue,
             IF keytype = <<101, 100, 50, 53, 53, 49, 57>> THEN "kED25519"
             ELSE IF keytype = <<114, 115, 97>> THEN IdentifyRSAKeyType(keyvalue)
             ELSE "kUnknown")

\* PublicKey::PublicKey(const std::string &, KeyType): throws
\* std::logic_error for an RSA type that is not the one identified.
PublicKeyFromPair(value, type) ==
  IF IsRsaKeyType(type) /\ type # IdentifyRSAKeyType(value)
  THEN ConstructorThrew
  ELSE Constructed(value, type)

\* PublicKey::VerifySignature.  thrown: an exception leaves the call (unhex
\* raises hex_decode_error for a value that is not hex).
VerifySignature(key, signature, message) ==
  CASE key.type = "kED25519" ->
         LET u == unhex(key.value)
         IN  IF u.thrown THEN [thrown |-> TRUE, val |-> FALSE]
             ELSE [thrown |-> FALSE,
                   val |-> ED25519Verify(u.val, fromBase64(signature), message)]
    [] IsRsaKeyType(key.type) ->
         [thrown |-> FALSE,
          val |-> RSAPSSVerify(key.value, fromBase64(signature), message)]
    [] OTHER -> [thrown |-> FALSE, val |-> FALSE]

\* PublicKey::operator==
KeyEquals(lhs, rhs) == lhs.value = rhs.value /\ lhs.type = rhs.type

\* ToUptane with the break after the RSA cases missing: they fall through to
\* the ED25519 case.
ToUptane_MissingBreak(key) ==
  IF IsRsaKeyType(key.type) \/ key.type = "kED25519"
  THEN [thrown |-> FALSE,
        json |-> JKey(JString(<<69, 68, 50, 53, 53, 49, 57>>),
                      JKeyval(JString(key.value)))]
  ELSE [thrown |-> FALSE,
        json |-> JKey(JString(<<117, 110, 107, 110, 111, 119, 110>>),
                      JKeyval(JString(key.value)))]

\* PublicKey::ToUptane.  "RSA" is 82 83 65, "ED25519" 69 68 50 53 53 49 57,
\* "unknown" 117 110 107 110 111 119 110.
ToUptane(key) ==
  CASE IsRsaKeyType(key.type) ->
         [thrown |-> FALSE,
          json |-> JKey(JString(<<82, 83, 65>>), JKeyval(JString(key.value)))]
    [] key.type = "kED25519" ->
         [thrown |-> FALSE,
          json |-> JKey(JString(<<69, 68, 50, 53, 53, 49, 57>>),
                        JKeyval(JString(key.value)))]
    [] key.type = "kUnknown" ->
         [thrown |-> FALSE,
          json |-> JKey(JString(<<117, 110, 107, 110, 111, 119, 110>>),
                        JKeyval(JString(key.value)))]
    [] OTHER -> [thrown |-> TRUE, json |-> JOther("null")]

\* KeyId without the trim_right_if.
KeyId_Untrimmed(key) ==
  to_lower(hex(sha256digest(jsonToCanonicalStr(key.value))))

\* PublicKey::KeyId
KeyId(key) ==
  LET key_content == trim_right_newlines(key.value)
      keyid       == hex(sha256digest(jsonToCanonicalStr(key_content)))
  IN  to_lower(keyid)

----------------------------------------------------------------------------
(* Hash and MultiPartHasher.                                                *)

HashTypes == {"kSha256", "kSha512", "kUnknownAlgorithm"}

\* Hash::Hash(Type, const std::string &): the digest is stored upper-cased.
Hash(type, hash) == [type |-> type, hash |-> to_upper(hash)]

NoHash == [thrown |-> FALSE, type |-> "none", hash |-> <<>>]

Returned(h) == [thrown |-> FALSE, type |-> h.type, hash |-> h.hash]

HashThrew == [thrown |-> TRUE, type |-> "none", hash |-> <<>>]

\* Hash::generate(type, data) falling back to SHA-256 in the default case.
generate_DefaultSha256(type, data) ==
  CASE type = "kSha512" -> Returned(Hash(type, hex(sha512digest(data))))
    [] OTHER -> Returned(Hash("kSha256", hex(sha256digest(data))))

\* Hash::generate(Type, const std::string &): throws std::invalid_argument
\* for a type that is neither kSha256 nor kSha512.
generate(type, data) ==
  CASE type = "kSha256" -> Returned(Hash(type, hex(sha256digest(data))))
    [] type = "kSha512" -> Returned(Hash(type, hex(sha512digest(data))))
    [] OTHER -> HashThrew

\* MultiPartHasher::update(data, len): the state of crypto_hash_*_update is
\* the bytes fed so far.
update(state, data, len) == state \o SubSeq(data, 1, len)

\* MultiPartSHA256Hasher::getHexDigest / MultiPartSHA512Hasher::getHexDigest:
\* crypto_hash_*_final over the bytes fed.
getHexDigest(type, state) ==
  IF type = "kSha256" THEN hex(crypto_hash_sha256(state))
  ELSE hex(crypto_hash_sha512(state))

\* MultiPartHasher::getHash
getHash(type, state) == Hash(type, getHexDigest(type, state))

\* std::istream::read(buffer, n) at position pos of the content: the bytes
\* extracted, none once the stream has failed.
StreamRead(content, pos, failed, n) ==
  IF failed THEN <<>>
  ELSE SubSeq(content, pos + 1, IF pos + n <= Len(content) THEN pos + n ELSE Len(content))

\* The buffer after a read of the bytes got: the rest keeps what it held.
BufferAfter(buf, got) ==
  [i \in 1..Len(buf) |-> IF i <= Len(got) THEN got[i] ELSE buf[i]]

\* The loop body of Hash::generate feeding the whole buffer, not gcount bytes.
FeedBlock_WholeBuffer(state, buf, gcount) == update(state, buf, Len(buf))

\* hasher->update(buffer->data(), source.gcount())
FeedBlock(state, buf, gcount) == update(state, buf, gcount)

----------------------------------------------------------------------------
(* Inputs.                                                                  *)

Messages == BitStrings(MaxMsgLen)

Streams == BitStrings(2 * BlockSize + 1)

\* The modulus sizes of the RSA public keys tried as key values.
RsaBitsTried == {1024, 2047, 2048, 3072, 4096}

Newlines(n) == Rep(10, n)

\* Key values: PEM public keys, Ed25519 keys in hex (both cases), and text
\* that is neither ("zz", "abc", "ab", ""), each with trailing newlines.
BaseValues ==
  {<<PemPub(b, 1)>> : b \in RsaBitsTried} \cup {<<PemPubOther(1)>>}
    \cup {hex(EdPublic(id)) : id \in KeyIds} \cup {to_lower(hex(EdPublic(1)))}
    \cup {<<122, 122>>, <<97, 98, 99>>, <<97, 98>>, <<>>}

KeyValues == {b \o Newlines(n) : b \in BaseValues, n \in 0..MaxNewlines}

\* keytype strings: "rsa", "RSA", "Rsa", "ed25519", "ED25519", "Ed25519",
\* "ecdsa" and "".
KeytypeStrings ==
  {<<114, 115, 97>>, <<82, 83, 65>>, <<82, 115, 97>>,
   <<101, 100, 50, 53, 53, 49, 57>>, <<69, 68, 50, 53, 53, 49, 57>>,
   <<69, 100, 50, 53, 53, 49, 57>>, <<101, 99, 100, 115, 97>>, <<>>}

WellFormedJsons ==
  {JKey(JString(kt), JKeyval(JString(v))) : kt \in KeytypeStrings, v \in KeyValues}

MalformedJsons ==
  {JOther("null"), JOther("array"),
   JKey(JInt, JKeyval(JString(<<PemPub(2048, 1)>>))),
   JKey(JNull, JKeyval(JString(<<PemPub(2048, 1)>>))),
   JKey(JString(<<114, 115, 97>>), JNotObject("string")),
   JKey(JString(<<114, 115, 97>>), JNotObject("null")),
   JKey(JString(<<114, 115, 97>>), JKeyval(JInt)),
   JKey(JString(<<101, 100, 50, 53, 53, 49, 57>>), JKeyval(JNull))}

Files == {[exists |-> TRUE, content |-> v] : v \in KeyValues}
           \cup {[exists |-> FALSE, content |-> <<>>]}

\* The signature a holder of the private half makes for the key and message
\* (a string of crypto_sign_BYTES bytes when nobody holds one).
ValidSignature(key, message) ==
  LET rsa == PEM_read_bio_RSA_PUBKEY(key.value)
      u   == unhex(key.value)
  IN  IF IsRsaKeyType(key.type) /\ ~rsa.null
      THEN RSAPSSSign(NoEngine, <<PemPriv(rsa.bits, rsa.id)>>, message, 1)
      ELSE IF ~u.thrown /\ \E id \in KeyIds : u.val = EdPublic(id)
      THEN ED25519Sign(crypto_sign_keypair(CHOOSE id \in KeyIds : u.val = EdPublic(id)).sk,
                       message)
      ELSE Rep(1, crypto_sign_BYTES)

\* Signature arguments of VerifySignature, in base64: a valid signature of
\* the empty message, three bytes, and nothing.
SignatureTexts(key) == {toBase64(ValidSignature(key, <<>>)), toBase64(<<1, 2, 3>>), <<>>}

\* The salt lengths foreign signers use with a key of RSA_size n.
SaltLens(n) ==
  LET hLen == crypto_hash_sha256_BYTES
      max  == n - hLen - 2
  IN  (0..SaltSweep) \cup {hLen - 1, hLen, hLen + 1, max - 1, max}

----------------------------------------------------------------------------
(* X509 certificates: generateCert, signCert, serializeCert.                *)

\* The signature field of an X509 object: the key it was made with and the
\* fields it was computed over.
NoSignature ==
  [signed |-> FALSE, key |-> NullKey, subject |-> <<>>, issuer |-> <<>>,
   pubkey |-> NullKey, notAfter |-> 0]

\* X509_new(): no names, no key, no signature.
X509_new ==
  [subject |-> <<>>, issuer |-> <<>>, pubkey |-> NullKey, notAfter |-> 0,
   sig |-> NoSignature]

\* X509_sign(x, pkey, EVP_sha256()): signs the fields as they are now; fails
\* for a null key and for a key that cannot sign with a SHA-256 digest.
X509_sign(x, pkey) ==
  IF pkey.null \/ ~pkey.rsa THEN [ok |-> FALSE, x |-> x]
  ELSE [ok |-> TRUE,
        x |-> [x EXCEPT !.sig = [signed |-> TRUE, key |-> pkey, subject |-> x.subject,
                                 issuer |-> x.issuer, pubkey |-> x.pubkey,
                                 notAfter |-> x.notAfter]]]

\* X509_verify(x, pkey): the signature was made with pkey over the fields
\* the certificate has now.
X509_verify(x, pkey) ==
  /\ x.sig.signed
  /\ x.sig.key = pkey
  /\ x.sig.subject = x.subject
  /\ x.sig.issuer = x.issuer
  /\ x.sig.pubkey = x.pubkey
  /\ x.sig.notAfter = x.notAfter

\* X509_NAME_add_entry_by_txt(name, field, MBSTRING_ASC, value, -1, -1, 0):
\* fails when the value's length is outside the field's bounds (countryName
\* exactly 2, the others 1..64).
X509_NAME_add_entry_by_txt(name, field, value) ==
  LET ok == IF field = "C" THEN Len(value) = 2 ELSE Len(value) \in 1..64
  IN  [ok |-> ok,
       name |-> IF ok THEN Append(name, [field |-> field, value |-> value]) ELSE name]

\* A PEM block holding certificate x, and one holding something else.  The
\* text of a certificate file is the sequence of its blocks.
CertBlock(x) == [pem |-> "CERTIFICATE", of |-> x]

OtherBlock == [pem |-> "PRIVATE KEY", of |-> X509_new]

\* PEM_write_bio_X509
PEM_write_bio_X509(x) == <<CertBlock(x)>>

\* PEM_read_bio_X509: the first certificate of the text, null without one.
PEM_read_bio_X509(text) ==
  LET blocks == {i \in 1..Len(text) : text[i].pem = "CERTIFICATE"}
  IN  IF blocks = {} THEN [null |-> TRUE, x |-> X509_new]
      ELSE [null |-> FALSE, x |-> text[Min(blocks)].of]

\* Crypto::generateRSAKeyPairEVP(const int bits): throws below 31 bits and
\* when the random generator is not seeded.
generateRSAKeyPairEVP_bits(bits, id, seeded) ==
  IF bits < 31 \/ ~seeded THEN [thrown |-> TRUE, pkey |-> NullKey]
  ELSE [thrown |-> FALSE, pkey |-> RsaKey(bits, id)]

\* The outcome of generateCert: "returned" with the certificate, "thrown"
\* (std::runtime_error) or "aborted" (a failed assert).
CertReturned(x) == [outcome |-> "returned", x |-> x]

CertFailed(outcome) == [outcome |-> outcome, x |-> X509_new]

\* The subject name after the optional entry: skipped when the value is
\* empty.
OptionalEntry(s, field, value) ==
  IF ~s.ok \/ value = <<>> THEN s ELSE X509_NAME_add_entry_by_txt(s.name, field, value)

\* generateCert adding the CN entry only when cert_cn is not empty.
generateCert_CnOptional(rsa_bits, cert_days, cert_c, cert_st, cert_o, cert_cn, self_sign, id, seeded, ndebug) ==
  LET s3 == OptionalEntry(OptionalEntry(OptionalEntry(OptionalEntry(
              [ok |-> TRUE, name |-> <<>>], "C", cert_c), "ST", cert_st), "O", cert_o),
              "CN", cert_cn)
      g  == generateRSAKeyPairEVP_bits(rsa_bits, id, seeded)
      x0 == [X509_new EXCEPT !.subject = s3.name, !.pubkey = g.pkey,
                             !.notAfter = 60 * 60 * 24 * cert_days]
  IN  IF ~s3.ok \/ g.thrown THEN CertFailed("thrown")
      ELSE IF self_sign THEN CertReturned(X509_sign(x0, g.pkey).x)
      ELSE CertReturned(x0)

\* Crypto::generateCert.  id and seeded are the random generator's choices;
\* ndebug tells whether assert is compiled out.
generateCert(rsa_bits, cert_days, cert_c, cert_st, cert_o, cert_cn, self_sign, id, seeded, ndebug) ==
  LET s3 == OptionalEntry(OptionalEntry(OptionalEntry(
              [ok |-> TRUE, name |-> <<>>], "C", cert_c), "ST", cert_st), "O", cert_o)
      s4 == X509_NAME_add_entry_by_txt(s3.name, "CN", cert_cn)
      g  == generateRSAKeyPairEVP_bits(rsa_bits, id, seeded)
      x0 == [X509_new EXCEPT !.subject = s4.name, !.pubkey = g.pkey,
                             !.notAfter = 60 * 60 * 24 * cert_days]
      s  == X509_sign(x0, g.pkey)
  IN  IF ~s3.ok THEN CertFailed("thrown")
      ELSE IF cert_cn = <<>> /\ ~ndebug THEN CertFailed("aborted")
      ELSE IF ~s4.ok THEN CertFailed("thrown")
      ELSE IF g.thrown \/ g.pkey.null THEN CertFailed("thrown")
      ELSE IF ~self_sign THEN CertReturned(x0)
      ELSE IF s.ok THEN CertReturned(s.x)
      ELSE CertFailed("thrown")

\* signCert setting the issuer name before it reads the CA private key.
signCert_IssuerBeforeKey(cacert_path, capkey_path, certificate) ==
  LET f1  == readFile(cacert_path)
      ca  == PEM_read_bio_X509(f1.val)
      f2  == readFile(capkey_path)
      key == PEM_read_bio_PrivateKey(f2.val)
      x1  == [certificate EXCEPT !.issuer = ca.x.subject]
      s   == X509_sign(x1, key)
  IN  IF f1.thrown \/ ca.null THEN [thrown |-> TRUE, x |-> certificate]
      ELSE IF f2.thrown \/ key.null \/ ~s.ok THEN [thrown |-> TRUE, x |-> x1]
      ELSE [thrown |-> FALSE, x |-> s.x]

\* signCert computing the signature before it sets the issuer name.
signCert_SignBeforeIssuer(cacert_path, capkey_path, certificate) ==
  LET f1  == readFile(cacert_path)
      ca  == PEM_read_bio_X509(f1.val)
      f2  == readFile(capkey_path)
      key == PEM_read_bio_PrivateKey(f2.val)
      s   == X509_sign(certificate, key)
  IN  IF f1.thrown \/ ca.null \/ f2.thrown \/ key.null \/ ~s.ok
      THEN [thrown |-> TRUE, x |-> certificate]
      ELSE [thrown |-> FALSE, x |-> [s.x EXCEPT !.issuer = ca.x.subject]]

\* Crypto::signCert: the certificate as the call leaves it, and whether it
\* threw.
signCert(cacert_path, capkey_path, certificate) ==
  LET f1  == readFile(cacert_path)
      ca  == PEM_read_bio_X509(f1.val)
      f2  == readFile(capkey_path)
      key == PEM_read_bio_PrivateKey(f2.val)
      x1  == [certificate EXCEPT !.issuer = ca.x.subject]
      s   == X509_sign(x1, key)
  IN  IF f1.thrown \/ ca.null THEN [thrown |-> TRUE, x |-> certificate]
      ELSE IF f2.thrown \/ key.null THEN [thrown |-> TRUE, x |-> certificate]
      ELSE IF ~s.ok THEN [thrown |-> TRUE, x |-> x1]
      ELSE [thrown |-> FALSE, x |-> s.x]

\* Crypto::serializeCert: the two texts written, and the certificate as the
\* call leaves it.
serializeCert(certificate) ==
  LET rsa == EVP_PKEY_get1_RSA(certificate.pubkey)
  IN  IF certificate.pubkey.null \/ rsa.null
      THEN [thrown |-> TRUE, pkey |-> <<>>, cert |-> <<>>, x |-> certificate]
      ELSE [thrown |-> FALSE, pkey |-> <<PemPriv(rsa.bits, rsa.id), 10>>,
            cert |-> PEM_write_bio_X509(certificate), x |-> certificate]

----------------------------------------------------------------------------
(* State.                                                                   *)

VARIABLES
  pk,          \* the PublicKey constructed, with the constructor's arguments
  uptane,      \* the result of ToUptane() on pk
  pk2,         \* the PublicKey constructed from uptane
  kid,         \* the result of KeyId() on pk
  verified,    \* the VerifySignature call on pk and its result
  keys,        \* the generateKeyPair call and its result
  signed,      \* the Sign call (or a foreign signer's) and its result
  checked,     \* the RSAPSSVerify / ED25519Verify call and its result
  hpc,         \* Hash::generate(type, stream): idle, loop, finish, done, thrown
  htype,       \* its type argument
  source,      \* the stream's content
  pos,         \* the stream's read position
  failbit,     \* the stream's failbit
  buffer,      \* the block buffer
  gcount,      \* source.gcount()
  hasher,      \* the MultiPartHasher's state
  count,       \* the local count
  nread,       \* *nread: -1 is the caller's value before the call
  nread_given, \* nread != nullptr
  hres,        \* the Hash returned by the streaming generate
  oneshot      \* the Hash returned by generate(type, data) on the same content

VARIABLES
  hashes,      \* the argument of Hash::shortTag
  tag          \* the shortTag call's result

VARIABLES
  certificate, \* the X509 object generateCert returned, as it is now
  genCall,     \* the generateCert call: its arguments and outcome
  lastCall,    \* the last call on the certificate: arguments, result, and
               \* the certificate as it was before the call
  caSigned     \* some signCert call has completed without throwing

VARIABLES
  p12Call      \* the parseP12 call: its arguments, result and outputs

VARIABLES
  frame,       \* the function running on native handles: its name, its
               \* argument, its position and how it was left
  handles      \* each native handle: live or not, how often it was
               \* released, and its owner

keyVars == <<pk, uptane, pk2, kid, verified>>

sigVars == <<keys, signed, checked>>

hashVars == <<hpc, htype, source, pos, failbit, buffer, gcount, hasher, count,
              nread, nread_given, hres, oneshot>>

tagVars == <<hashes, tag>>

\* The state of the operations on hash lists, certificates, PKCS#12
\* containers and native handles.
certVars == <<certificate, genCall, lastCall, caSigned>>

p12Vars == <<p12Call>>

handleVars == <<frame, handles>>

extVars == <<tagVars, certVars, p12Vars, handleVars>>

vars == <<keyVars, sigVars, hashVars, extVars>>

NoFile == [exists |-> FALSE, content |-> <<>>]

NoTag == [called |-> FALSE, val |-> <<>>]

NoCertificate == [exists |-> FALSE, x |-> X509_new]

NoGenCall ==
  [called |-> FALSE, rsa_bits |-> 0, cert_days |-> 0, cert_c |-> <<>>, cert_st |-> <<>>,
   cert_o |-> <<>>, cert_cn |-> <<>>, self_sign |-> FALSE, seeded |-> FALSE,
   ndebug |-> FALSE, outcome |-> "none"]

\* The native handles of the functions followed: the BIGNUM, RSA and
\* EVP_PKEY of generateRSAKeyPairEVP and RSAPSSSign, and the PKCS12,
\* EVP_PKEY, X509, STACK_OF(X509) and BIO of parseP12.
HandleNames == {"bne", "rsa", "pkey", "p12", "x509_cert", "ca_certs", "sink"}

NoHandle == [live |-> FALSE, frees |-> 0, owner |-> "none"]

NoFrame == [fn |-> "none", arg |-> 0, pc |-> "idle", left |-> "none"]

NoP12Call ==
  [called |-> FALSE, p12 |-> [parsable |-> FALSE, password |-> <<>>, pkey |-> NullKey,
                              cert |-> X509_new, ca |-> <<>>],
   p12_password |-> <<>>, nomem |-> "none", ret |-> FALSE,
   out_pkey |-> <<>>, out_cert |-> <<>>, out_ca |-> <<>>]

NoLastCall ==
  [op |-> "none", cacert_path |-> NoFile, capkey_path |-> NoFile, thrown |-> FALSE,
   before |-> X509_new, pkey |-> <<>>, cert |-> <<>>]

NoPublicKey ==
  [ctor |-> "none", json |-> JOther("none"), file |-> NoFile, declared |-> "none",
   thrown |-> FALSE, value |-> <<>>, type |-> "kUnknown"]

NoUptane == [called |-> FALSE, thrown |-> FALSE, json |-> JOther("none")]

NoKeyId == [called |-> FALSE, val |-> <<>>]

NoVerified ==
  [called |-> FALSE, signature |-> <<>>, message |-> <<>>, thrown |-> FALSE, val |-> FALSE]

NoKeys ==
  [type |-> "none", id |-> 0, thrown |-> FALSE, ok |-> FALSE,
   public_key |-> <<>>, private_key |-> <<>>]

NoSigned ==
  [by |-> "none", key_type |-> "none", engine |-> NoEngine, private_key |-> <<>>,
   message |-> <<>>, sLen |-> 0, thrown |-> FALSE, val |-> <<>>]

NoChecked ==
  [by |-> "none", public_key |-> <<>>, signature |-> <<>>, message |-> <<>>, val |-> FALSE]

Init ==
  /\ pk = NoPublicKey
  /\ uptane = NoUptane
  /\ pk2 = NoPublicKey
  /\ kid = NoKeyId
  /\ verified = NoVerified
  /\ keys = NoKeys
  /\ signed = NoSigned
  /\ checked = NoChecked
  /\ hpc = "idle"
  /\ htype = "none"
  /\ source = <<>>
  /\ pos = 0
  /\ failbit = FALSE
  /\ buffer = <<>>
  /\ gcount = 0
  /\ hasher = <<>>
  /\ count = 0
  /\ nread = -1
  /\ nread_given = FALSE
  /\ hres = NoHash
  /\ oneshot = NoHash
  /\ hashes = <<>>
  /\ tag = NoTag
  /\ certificate = NoCertificate
  /\ genCall = NoGenCall
  /\ lastCall = NoLastCall
  /\ caSigned = FALSE
  /\ p12Call = NoP12Call
  /\ frame = NoFrame
  /\ handles = [n \in HandleNames |-> NoHandle]

----------------------------------------------------------------------------
(* PublicKey: construction, export, fingerprint, verification.              *)

PublicKeyObject(r, ctor, json, file, declared) ==
  [ctor |-> ctor, json |-> json, file |-> file, declared |-> declared,
   thrown |-> r.thrown, value |-> r.value, type |-> r.type]

ConstructFromPath ==
  /\ pk.ctor = "none"
  /\ \E file \in Files :
       pk' = PublicKeyObject(PublicKeyFromPath(file), "path", JOther("none"), file, "none")
  /\ UNCHANGED <<uptane, pk2, kid, verified, sigVars, hashVars, extVars>>

ConstructFromJson ==
  /\ pk.ctor = "none"
  /\ \E json \in WellFormedJsons \cup MalformedJsons :
       pk' = PublicKeyObject(PublicKeyFromJson(json), "json", json, NoFile, "none")
  /\ UNCHANGED <<uptane, pk2, kid, verified, sigVars, hashVars, extVars>>

ConstructFromPair ==
  /\ pk.ctor = "none"
  /\ \E value \in KeyValues, type \in KeyTypes :
       pk' = PublicKeyObject(PublicKeyFromPair(value, type), "pair", JOther("none"),
                             [exists |-> FALSE, content |-> value], type)
  /\ UNCHANGED <<uptane, pk2, kid, verified, sigVars, hashVars, extVars>>

\* There is a PublicKey object and no method has been called on it.
KeyFresh ==
  /\ pk.ctor # "none"
  /\ ~pk.thrown
  /\ ~uptane.called
  /\ ~kid.called
  /\ ~verified.called

CallToUptane ==
  /\ KeyFresh
  /\ uptane' = [called |-> TRUE, thrown |-> ToUptane(pk).thrown, json |-> ToUptane(pk).json]
  /\ UNCHANGED <<pk, pk2, kid, verified, sigVars, hashVars, extVars>>

Reconstruct ==
  /\ uptane.called
  /\ ~uptane.thrown
  /\ pk2.ctor = "none"
  /\ pk2' = PublicKeyObject(PublicKeyFromJson(uptane.json), "json", uptane.json, NoFile, "none")
  /\ UNCHANGED <<pk, uptane, kid, verified, sigVars, hashVars, extVars>>

CallKeyId ==
  /\ KeyFresh
  /\ kid' = [called |-> TRUE, val |-> KeyId(pk)]
  /\ UNCHANGED <<pk, uptane, pk2, verified, sigVars, hashVars, extVars>>

CallVerifySignature ==
  /\ KeyFresh
  /\ \E signature \in SignatureTexts(pk), message \in Messages :
       LET r == VerifySignature(pk, signature, message)
       IN  verified' = [called |-> TRUE, signature |-> signature, message |-> message,
                        thrown |-> r.thrown, val |-> r.val]
  /\ UNCHANGED <<pk, uptane, pk2, kid, sigVars, hashVars, extVars>>

NextKey ==
  \/ ConstructFromPath
  \/ ConstructFromJson
  \/ ConstructFromPair
  \/ CallToUptane
  \/ Reconstruct
  \/ CallKeyId
  \/ CallVerifySignature

SpecKey == Init /\ [][NextKey]_vars

----------------------------------------------------------------------------
(* Claims about PublicKey, under SpecKey.                                   *)

EqualsIgnoreCase(a, b) ==
  /\ Len(a) = Len(b)
  /\ \A i \in 1..Len(a) : toupper(a[i]) = toupper(b[i])

\* The text holds a PEM RSA public key whose modulus is exactly bits long.
HoldsRsaKeyOfBits(text, bits) ==
  /\ ~PEM_read_bio_RSA_PUBKEY(text).null
  /\ RSA_bits(PEM_read_bio_RSA_PUBKEY(text)) = bits

BitsOfType(type) ==
  CASE type = "kRSA2048" -> 2048
    [] type = "kRSA3072" -> 3072
    [] type = "kRSA4096" -> 4096
    [] OTHER -> 0

\* C1: VerifySignature is fail-closed: for every key a constructor produced,
\* every signature string and every message the call returns a boolean and
\* raises nothing, and it returns false for a key of type Unknown.
C1_VerifySignatureNeverThrows ==
  verified.called =>
    /\ ~verified.thrown
    /\ pk.type = "kUnknown" => ~verified.val

\* C3: every PublicKey a constructor produced whose type is an RSA variant
\* has a value that parses as a PEM RSA public key whose modulus is exactly
\* 2048, 3072 or 4096 bits long, as the type says; and the (value, type)
\* constructor throws when the declared RSA variant is not the identified one.
C3_RsaTypeMatchesModulus ==
  /\ (pk.ctor # "none" /\ ~pk.thrown /\ IsRsaKeyType(pk.type))
       => HoldsRsaKeyOfBits(pk.value, BitsOfType(pk.type))
  /\ (pk.ctor = "pair" /\ IsRsaKeyType(pk.declared)
        /\ pk.declared # IdentifyRSAKeyType(pk.file.content))
       => pk.thrown

\* C4: IdentifyRSAKeyType (the type the path constructor stores) is RSA2048,
\* RSA3072 or RSA4096 exactly when the text parses as a PEM RSA public key
\* whose modulus is 2048, 3072 or 4096 bits long, and Unknown for every other
\* modulus length and for text that does not parse.
C4_IdentifyExactBits ==
  (pk.ctor = "path" /\ ~pk.thrown) =>
    \A t \in {"kRSA2048", "kRSA3072", "kRSA4096"} :
      (pk.type = t) <=> HoldsRsaKeyOfBits(pk.value, BitsOfType(t))

\* The type the claim gives a metadata document.
TypeOfJson(json) ==
  IF \/ json.t # "object"
     \/ json.keytype.t # "string"
     \/ json.keyval.t # "object"
     \/ json.keyval.public.t # "string"
  THEN "kUnknown"
  ELSE IF EqualsIgnoreCase(json.keytype.s, <<69, 68, 50, 53, 53, 49, 57>>)
  THEN "kED25519"
  ELSE IF EqualsIgnoreCase(json.keytype.s, <<82, 83, 65>>)
  THEN IdentifyRSAKeyType(json.keyval.public.s)
  ELSE "kUnknown"

\* C5: the Json constructor never throws and classifies by the keytype string
\* compared without regard to case: "ed25519" gives ED25519, "rsa" the RSA
\* variant identified from keyval.public, anything else Unknown, and Unknown
\* too when keytype is no string, keyval no object or keyval.public no string.
C5_JsonClassification ==
  pk.ctor = "json" => (~pk.thrown /\ pk.type = TypeOfJson(pk.json))

\* C5 witness: a document with keytype "Rsa" gave an RSA2048 key.
C5_Witness ==
  /\ pk.ctor = "json"
  /\ pk.json.keytype.s = <<82, 115, 97>>
  /\ pk.type = "kRSA2048"

\* The text is an Ed25519 public key in hex, in either case.
IsEd25519KeyText(text) == \E id \in KeyIds : to_upper(text) = hex(EdPublic(id))

\* A document whose keytype is "rsa" with a key of one of the three RSA
\* sizes, or "ed25519" with an Ed25519 key.
RoundTripInput(json) ==
  /\ json.t = "object"
  /\ json.keytype.t = "string"
  /\ json.keyval.t = "object"
  /\ json.keyval.public.t = "string"
  /\ \/ /\ EqualsIgnoreCase(json.keytype.s, <<82, 83, 65>>)
        /\ \E b \in {2048, 3072, 4096} : HoldsRsaKeyOfBits(json.keyval.public.s, b)
     \/ /\ EqualsIgnoreCase(json.keytype.s, <<69, 68, 50, 53, 53, 49, 57>>)
        /\ IsEd25519KeyText(json.keyval.public.s)

\* C6: for a document with keytype "rsa" or "ed25519" in any case and a key
\* of that kind, ToUptane() of the PublicKey made from it has the same
\* keyval.public and the same keytype up to case, and the PublicKey made from
\* that output equals (operator==) the first.
C6_UptaneRoundTrip ==
  (pk.ctor = "json" /\ RoundTripInput(pk.json) /\ uptane.called) =>
    /\ ~uptane.thrown
    /\ uptane.json.keyval.public = pk.json.keyval.public
    /\ EqualsIgnoreCase(uptane.json.keytype.s, pk.json.keytype.s)
    /\ pk2.ctor # "none" => (~pk2.thrown /\ KeyEquals(pk2, pk))

\* C6 witness: an RSA4096 key from a document with keytype "rsa" was
\* exported and made again.
C6_Witness ==
  /\ pk.ctor = "json"
  /\ RoundTripInput(pk.json)
  /\ pk.json.keytype.s = <<114, 115, 97>>
  /\ pk.type = "kRSA4096"
  /\ pk2.ctor # "none"

\* One text is the other followed by "\n" characters only.
SameUpToTrailingNewlines(a, b) ==
  \/ Len(a) <= Len(b) /\ b = a \o Newlines(Len(b) - Len(a))
  \/ Len(b) <= Len(a) /\ a = b \o Newlines(Len(a) - Len(b))

IsLowerHex(c) == c \in 48..57 \/ c \in 97..102

\* C7: KeyId is 64 characters of lower-case hex, and every key whose value
\* differs from this key's only by trailing "\n" characters, of whatever
\* type, has the same KeyId.
C7_KeyIdIgnoresTrailingNewlines ==
  kid.called =>
    /\ Len(kid.val) = 64
    /\ \A i \in 1..Len(kid.val) : IsLowerHex(kid.val[i])
    /\ \A v \in KeyValues, t \in KeyTypes :
         SameUpToTrailingNewlines(v, pk.value) =>
           KeyId([value |-> v, type |-> t]) = kid.val

\* C7 witness: KeyId was taken of an ED25519 key whose value ends in "\n".
C7_Witness ==
  /\ kid.called
  /\ pk.type = "kED25519"
  /\ Len(pk.value) > 1
  /\ pk.value[Len(pk.value)] = 10

----------------------------------------------------------------------------
(* Key-pair generation, signing and verification.                           *)

\* The bytes the random salt is made of.
SaltBytes == {1, 2}

\* Private-key arguments that hold no usable RSA key: "g", a PEM private key
\* that is not RSA, and a 512-bit RSA key (too small for the PSS encoding).
BadPrivateKeys == {<<103>>, <<PemPrivOther(1), 10>>, <<PemPriv(512, 1), 10>>}

\* The (key_type, engine, private_key) arguments tried with the key pair k.
\* With an engine the private_key argument is the key's name ("k").
SignCalls(k) ==
  IF k.ok /\ k.type = "kED25519"
  THEN {[key_type |-> k.type, engine |-> NoEngine, private_key |-> p] :
          p \in {k.private_key, <<122, 122>>}}
  ELSE IF k.ok
  THEN LET held == PEM_read_bio_PrivateKey(k.private_key)
       IN  {[key_type |-> k.type, engine |-> NoEngine, private_key |-> p] :
              p \in {k.private_key, k.public_key} \cup BadPrivateKeys}
             \cup {[key_type |-> k.type, engine |-> e, private_key |-> <<107>>] :
                     e \in {Engine(held, FALSE), Engine(held, TRUE),
                            Engine(NullKey, FALSE), Engine(OtherKey(1), FALSE)}}
  ELSE {[key_type |-> t, engine |-> NoEngine, private_key |-> p] :
          t \in {"kRSA2048", "kUnknown"}, p \in BadPrivateKeys}

CallGenerateKeyPair ==
  /\ keys.type = "none"
  /\ \E type \in KeyTypes, id \in KeyIds, seeded \in BOOLEAN :
       LET r == generateKeyPair(type, id, seeded)
       IN  keys' = [type |-> type, id |-> IF r.ok THEN id ELSE 0, thrown |-> r.thrown,
                    ok |-> r.ok, public_key |-> r.public_key,
                    private_key |-> r.private_key]
  /\ UNCHANGED <<signed, checked, keyVars, hashVars, extVars>>

CallSign ==
  /\ keys.type # "none"
  /\ signed.by = "none"
  /\ \E c \in SignCalls(keys), message \in Messages, rnd \in SaltBytes :
       LET r == Sign(c.key_type, c.engine, c.private_key, message, rnd)
       IN  signed' = [by |-> "Sign", key_type |-> c.key_type, engine |-> c.engine,
                      private_key |-> c.private_key, message |-> message, sLen |-> -1,
                      thrown |-> r.thrown, val |-> r.val]
  /\ UNCHANGED <<keys, checked, keyVars, hashVars, extVars>>

\* Another implementation signs with the private key: a PSS encoding of the
\* message's SHA-256 digest with a salt length of its choice.
ForeignSign ==
  /\ keys.ok
  /\ IsRsaKeyType(keys.type)
  /\ signed.by = "none"
  /\ LET held == PEM_read_bio_PrivateKey(keys.private_key)
     IN  \E message \in Messages, sLen \in SaltLens(RSA_size(held)) :
           LET pad == RSA_padding_add_PKCS1_PSS(held, sha256digest(message), sLen, 3)
           IN  /\ pad.status = 1
               /\ signed' = [by |-> "foreign", key_type |-> keys.type, engine |-> NoEngine,
                             private_key |-> keys.private_key, message |-> message,
                             sLen |-> sLen, thrown |-> FALSE,
                             val |-> RSA_private_encrypt(pad.EM, held)]
  /\ UNCHANGED <<keys, checked, keyVars, hashVars, extVars>>

\* The public half of another key pair of the same kind.
OtherPublicKey(k) ==
  LET other == (k.id % NumKeys) + 1
  IN  IF k.type = "kED25519" THEN hex(EdPublic(other))
      ELSE <<PemPub(BitsOfType(k.type), other), 10>>

\* The signature as returned, without its last byte, with one byte more, and
\* the empty one.
SignatureVariants(sig) == {sig, SubSeq(sig, 1, Len(sig) - 1), sig \o <<0>>, <<>>}

\* There is a signature to verify.
HaveSignature ==
  /\ keys.ok
  /\ signed.by # "none"
  /\ ~signed.thrown
  /\ signed.val # <<>>
  /\ checked.by = "none"

CallRSAPSSVerify ==
  /\ HaveSignature
  /\ IsRsaKeyType(keys.type)
  /\ \E public_key \in {keys.public_key, OtherPublicKey(keys)},
        signature \in SignatureVariants(signed.val), message \in Messages :
       checked' = [by |-> "RSAPSSVerify", public_key |-> public_key,
                   signature |-> signature, message |-> message,
                   val |-> RSAPSSVerify(public_key, signature, message)]
  /\ UNCHANGED <<keys, signed, keyVars, hashVars, extVars>>

\* Crypto::ED25519Verify, called with the key decoded from hex.
CallED25519Verify ==
  /\ HaveSignature
  /\ keys.type = "kED25519"
  /\ \E public_key \in {keys.public_key, OtherPublicKey(keys)},
        signature \in SignatureVariants(signed.val), message \in Messages :
       checked' = [by |-> "ED25519Verify", public_key |-> public_key,
                   signature |-> signature, message |-> message,
                   val |-> ED25519Verify(unhex(public_key).val, signature, message)]
  /\ UNCHANGED <<keys, signed, keyVars, hashVars, extVars>>

NextSig ==
  \/ CallGenerateKeyPair
  \/ CallSign
  \/ ForeignSign
  \/ CallRSAPSSVerify
  \/ CallED25519Verify

SpecSig == Init /\ [][NextSig]_vars

----------------------------------------------------------------------------
(* Claims about signing and verification, under SpecSig.                    *)

\* The signature was made by Sign, without an engine, with the private key
\* generateKeyPair returned, and is verified under the matching public key.
SignedAndVerifiedWithPair ==
  /\ keys.ok
  /\ signed.by = "Sign"
  /\ signed.engine.null
  /\ signed.key_type = keys.type
  /\ signed.private_key = keys.private_key
  /\ checked.by # "none"
  /\ checked.public_key = keys.public_key
  /\ checked.signature = signed.val

\* C2: for every supported key type and generated key pair, the signature
\* Sign returns for msg verifies against msg under the matching public key
\* and fails to verify against every other message.
C2_SignVerifyRoundTrip ==
  SignedAndVerifiedWithPair => (checked.val <=> checked.message = signed.message)

\* C2 witness: an RSA2048 signature verified against the message signed.
C2_Witness ==
  /\ SignedAndVerifiedWithPair
  /\ keys.type = "kRSA2048"
  /\ checked.message = signed.message
  /\ checked.val

\* The key RSAPSSSign signs with: the engine's, or the one parsed from PEM.
SigningKey(s) ==
  IF ~s.engine.null THEN s.engine.pkey ELSE PEM_read_bio_PrivateKey(s.private_key)

\* Signing failed: the key could not be loaded or parsed or is not RSA, the
\* PSS padding failed, or the private-key transform failed.
SigningFailed(s) ==
  LET k == SigningKey(s)
  IN  \/ k.null
      \/ ~k.rsa
      \/ RSA_padding_add_PKCS1_PSS(k, sha256digest(s.message), -1, 0).status = 0
      \/ (~s.engine.null /\ s.engine.fails)

\* C8: RSA signing throws nothing; its result is empty exactly when signing
\* failed, and on success it is RSA_size(key) bytes long.
C8_RsaSignEmptyIffFailed ==
  (signed.by = "Sign" /\ signed.key_type # "kED25519") =>
    /\ ~signed.thrown
    /\ (signed.val = <<>>) <=> SigningFailed(signed)
    /\ ~SigningFailed(signed) => Len(signed.val) = RSA_size(SigningKey(signed))

\* C8 witness: the engine's transform failed and the result is empty.
C8_Witness ==
  /\ signed.by = "Sign"
  /\ ~signed.engine.null
  /\ signed.engine.fails
  /\ signed.val = <<>>

\* C9: RSAPSSVerify accepts, under the matching public key, every valid PSS
\* signature of the message whatever salt length its signer chose, from 0 up
\* to the longest the key allows.
C9_VerifyAnySaltLength ==
  (/\ signed.by = "foreign"
   /\ checked.by = "RSAPSSVerify"
   /\ checked.public_key = keys.public_key
   /\ checked.signature = signed.val
   /\ checked.message = signed.message) => checked.val

\* C9 witness: a signature with the longest salt the key allows was verified.
C9_Witness ==
  /\ signed.by = "foreign"
  /\ signed.sLen = RSA_size(SigningKey(signed)) - crypto_hash_sha256_BYTES - 2
  /\ checked.by = "RSAPSSVerify"
  /\ checked.public_key = keys.public_key
  /\ checked.signature = signed.val
  /\ checked.message = signed.message
  /\ checked.val

----------------------------------------------------------------------------
(* Hash::generate over a stream, step by step, and over a string.           *)

\* Entry of Hash::generate(type, source, nread): the switch creates the
\* hasher or throws; the buffer is value-initialised.
GenerateStreamBegin ==
  /\ hpc = "idle"
  /\ \E type \in HashTypes, content \in Streams, given \in BOOLEAN :
       /\ htype' = type
       /\ source' = content
       /\ nread_given' = given
       /\ IF type \in {"kSha256", "kSha512"}
          THEN /\ hpc' = "loop"
               /\ hres' = hres
          ELSE /\ hpc' = "thrown"
               /\ hres' = HashThrew
  /\ pos' = 0
  /\ failbit' = FALSE
  /\ buffer' = Rep(0, BlockSize)
  /\ gcount' = 0
  /\ hasher' = <<>>
  /\ count' = 0
  /\ UNCHANGED <<nread, oneshot, keyVars, sigVars, extVars>>

\* One iteration of the do-while loop: read, update, count, test gcount.
GenerateStreamRead ==
  /\ hpc = "loop"
  /\ LET got == StreamRead(source, pos, failbit, BlockSize)
         buf == BufferAfter(buffer, got)
     IN  /\ buffer' = buf
         /\ gcount' = Len(got)
         /\ pos' = pos + Len(got)
         /\ failbit' = (failbit \/ Len(got) < BlockSize)
         /\ hasher' = FeedBlock(hasher, buf, Len(got))
         /\ count' = count + Len(got)
         /\ hpc' = IF Len(got) > 0 THEN "loop" ELSE "finish"
  /\ UNCHANGED <<htype, source, nread, nread_given, hres, oneshot, keyVars, sigVars, extVars>>

\* After the loop: *nread = count when nread is given, return getHash().
GenerateStreamFinish ==
  /\ hpc = "finish"
  /\ nread' = IF nread_given THEN count ELSE nread
  /\ hres' = Returned(getHash(htype, hasher))
  /\ hpc' = "done"
  /\ UNCHANGED <<htype, source, pos, failbit, buffer, gcount, hasher, count,
                 nread_given, oneshot, keyVars, sigVars, extVars>>

\* Hash::generate(type, data) over the whole content of the stream.
GenerateData ==
  /\ hpc \in {"done", "thrown"}
  /\ oneshot' = generate(htype, source)
  /\ hpc' = "compared"
  /\ UNCHANGED <<htype, source, pos, failbit, buffer, gcount, hasher, count,
                 nread, nread_given, hres, keyVars, sigVars, extVars>>

NextHash ==
  \/ GenerateStreamBegin
  \/ GenerateStreamRead
  \/ GenerateStreamFinish
  \/ GenerateData

SpecHash == Init /\ [][NextHash]_vars

----------------------------------------------------------------------------
(* Claims about hashing, under SpecHash.                                    *)

\* C10: the streaming Hash::generate reads blocks of at most the block size,
\* has fed the hasher exactly the bytes read so far in stream order, and for
\* kSha256 and kSha512 returns the Hash the one-shot Hash::generate returns
\* for the whole content, reporting the content's length as the byte count.
C10_StreamingEqualsOneShot ==
  /\ gcount <= BlockSize
  /\ hpc \in {"loop", "finish", "done"} =>
       /\ count = pos
       /\ hasher = SubSeq(source, 1, count)
  /\ (hpc = "compared" /\ htype \in {"kSha256", "kSha512"}) =>
       /\ ~hres.thrown
       /\ hres = oneshot
       /\ nread_given => nread = Len(source)

\* C10 witness: a stream of one block plus one byte was hashed both ways.
C10_Witness ==
  /\ hpc = "compared"
  /\ htype = "kSha512"
  /\ Len(source) = BlockSize + 1
  /\ nread_given
  /\ nread = BlockSize + 1
  /\ hres = oneshot

----------------------------------------------------------------------------
(* Hash::shortTag.                                                          *)

MaxHashes == 3

\* enum class Hash::Type { kSha256, kSha512, kUnknownAlgorithm }: the order
\* in which operator< compares the types.
TypeOrdinal(type) ==
  CASE type = "kSha256" -> 0
    [] type = "kSha512" -> 1
    [] OTHER -> 2

\* The literal "(unknown)".
UnknownTag == <<40, 117, 110, 107, 110, 111, 119, 110, 41>>

\* std::string::assign(str, 0, 12): at most the first 12 characters.
assign12(str) == SubSeq(str, 1, Min({12, Len(str)}))

\* The range-for loop of shortTag from entry i on, with the locals best, res.
RECURSIVE shortTagLoop(_, _, _, _)
shortTagLoop(list, i, best, res) ==
  IF i > Len(list) THEN res
  ELSE IF TypeOrdinal(list[i].type) < TypeOrdinal(best)
       THEN shortTagLoop(list, i + 1, list[i].type, assign12(list[i].hash))
       ELSE shortTagLoop(list, i + 1, best, res)

\* shortTag taking the first entry of a known algorithm, whatever its rank.
shortTag_FirstKnown(list) ==
  LET known == {i \in 1..Len(list) : list[i].type # "kUnknownAlgorithm"}
  IN  to_lower(IF known = {} THEN UnknownTag ELSE assign12(list[Min(known)].hash))

\* Hash::shortTag
shortTag(list) == to_lower(shortTagLoop(list, 1, "kUnknownAlgorithm", UnknownTag))

\* Digest texts given to the Hash constructor: two SHA-256 digests in hex,
\* one SHA-512 digest in hex, and the two characters "aB".
TagDigests ==
  {hex(sha256digest(<<0>>)), to_lower(hex(sha256digest(<<1>>))),
   hex(sha512digest(<<0>>)), <<97, 66>>}

\* The Hash objects a list is made of.
TagHashes == {Hash(t, d) : t \in HashTypes, d \in TagDigests}

\* Lists of n Hash objects.
RECURSIVE HashLists(_)
HashLists(n) ==
  IF n = 0 THEN {<<>>}
  ELSE LET shorter == HashLists(n - 1)
       IN  shorter \cup {Append(l, h) : l \in {x \in shorter : Len(x) = n - 1},
                                        h \in TagHashes}

CallShortTag ==
  /\ ~tag.called
  /\ \E list \in HashLists(MaxHashes) :
       /\ hashes' = list
       /\ tag' = [called |-> TRUE, val |-> shortTag(list)]
  /\ UNCHANGED <<keyVars, sigVars, hashVars, certVars, p12Vars, handleVars>>

NextTag == CallShortTag

SpecTag == Init /\ [][NextTag]_vars

\* The positions of the entries of the given algorithm.
EntriesOf(list, type) == {i \in 1..Len(list) : list[i].type = type}

\* The entry the tag is taken from: the earliest SHA-256 entry, or else the
\* earliest SHA-512 entry; 0 when there is neither.
Winner(list) ==
  IF EntriesOf(list, "kSha256") # {} THEN Min(EntriesOf(list, "kSha256"))
  ELSE IF EntriesOf(list, "kSha512") # {} THEN Min(EntriesOf(list, "kSha512"))
  ELSE 0

\* C11: shortTag returns the first 12 characters, lower-cased, of the digest
\* of the earliest SHA-256 entry, or without one of the earliest SHA-512
\* entry, and "(unknown)" when the list holds neither.
C11_ShortTagPicksLowestOrdinal ==
  tag.called =>
    LET w == Winner(hashes)
    IN  /\ w = 0 => tag.val = UnknownTag
        /\ w # 0 =>
             /\ Len(tag.val) = Min({12, Len(hashes[w].hash)})
             /\ \A j \in 1..Len(tag.val) : tag.val[j] = tolower(hashes[w].hash[j])

\* C11 witness: a SHA-512 entry precedes two SHA-256 entries and the tag is
\* taken from the first SHA-256 entry.
C11_Witness ==
  /\ tag.called
  /\ Len(hashes) = 3
  /\ hashes[1].type = "kSha512"
  /\ hashes[2].type = "kSha256"
  /\ hashes[3].type = "kSha256"
  /\ hashes[2].hash # hashes[3].hash
  /\ Len(hashes[2].hash) > 12
  /\ tag.val = to_lower(SubSeq(hashes[2].hash, 1, 12))
  /\ tag.val # to_lower(assign12(hashes[1].hash))

----------------------------------------------------------------------------
(* Hash::generate with an unsupported type, under SpecHash.                 *)

\* C12: for a type other than kSha256 and kSha512 the streaming generate
\* throws with the stream still at its start, nothing counted and *nread
\* not written, and the one-shot generate throws as well.
C12_UnsupportedTypeThrows ==
  (hpc # "idle" /\ htype \notin {"kSha256", "kSha512"}) =>
    /\ hpc \in {"thrown", "compared"}
    /\ hres = HashThrew
    /\ pos = 0
    /\ ~failbit
    /\ count = 0
    /\ nread = -1
    /\ hpc = "compared" => oneshot = HashThrew

\* C12 witness: both variants were called with kUnknownAlgorithm on a
\* non-empty stream with nread given, and both threw.
C12_Witness ==
  /\ hpc = "compared"
  /\ htype = "kUnknownAlgorithm"
  /\ Len(source) > 0
  /\ nread_given
  /\ hres.thrown
  /\ oneshot.thrown

----------------------------------------------------------------------------
(* The life of one certificate: generateCert, then signCert and             *)
(* serializeCert in any order.                                              *)

\* Arguments of generateCert: no country, "DE", "DEU"; no text, "n";
\* a key size below and one above the limit of 31 bits.
CertCountries == {<<>>, <<68, 69>>, <<68, 69, 85>>}

CertTexts == {<<>>, <<110>>}

CertBits == {30, 2048}

\* The certificate of CA id: subject "CA" and the id, signed with its key.
CaCert(id) ==
  LET name == <<[field |-> "CN", value |-> <<67, 65, 48 + id>>]>>
  IN  X509_sign([X509_new EXCEPT !.subject = name, !.issuer = name,
                                 !.pubkey = RsaKey(2048, id)], RsaKey(2048, id)).x

\* CA certificate files: missing, empty, without a certificate, and the
\* certificate of each CA.
CaCertFiles ==
  {NoFile, [exists |-> TRUE, content |-> <<>>], [exists |-> TRUE, content |-> <<OtherBlock>>]}
    \cup {[exists |-> TRUE, content |-> PEM_write_bio_X509(CaCert(id))] : id \in KeyIds}

\* CA private-key files: missing, "g", a key that is not RSA, and the key
\* of each CA.
CaKeyFiles ==
  {NoFile, [exists |-> TRUE, content |-> <<103>>],
   [exists |-> TRUE, content |-> <<PemPrivOther(1), 10>>]}
    \cup {[exists |-> TRUE, content |-> <<PemPriv(2048, id), 10>>] : id \in KeyIds}

CallGenerateCert ==
  /\ ~genCall.called
  /\ \E rsa_bits \in CertBits, cert_c \in CertCountries, cert_st \in CertTexts,
        cert_o \in CertTexts, cert_cn \in CertTexts, self_sign \in BOOLEAN,
        id \in KeyIds, seeded \in BOOLEAN, ndebug \in BOOLEAN :
       LET r == generateCert(rsa_bits, 365, cert_c, cert_st, cert_o, cert_cn, self_sign,
                             id, seeded, ndebug)
       IN  /\ certificate' = [exists |-> r.outcome = "returned", x |-> r.x]
           /\ genCall' = [called |-> TRUE, rsa_bits |-> rsa_bits, cert_days |-> 365,
                          cert_c |-> cert_c, cert_st |-> cert_st, cert_o |-> cert_o,
                          cert_cn |-> cert_cn, self_sign |-> self_sign, seeded |-> seeded,
                          ndebug |-> ndebug, outcome |-> r.outcome]
           /\ lastCall' = [NoLastCall EXCEPT !.op = "generateCert",
                                             !.thrown = (r.outcome # "returned")]
  /\ UNCHANGED <<caSigned, keyVars, sigVars, hashVars, tagVars, p12Vars, handleVars>>

CallSignCert ==
  /\ certificate.exists
  /\ \E cacert_path \in CaCertFiles, capkey_path \in CaKeyFiles :
       LET r == signCert(cacert_path, capkey_path, certificate.x)
       IN  /\ certificate' = [certificate EXCEPT !.x = r.x]
           /\ lastCall' = [NoLastCall EXCEPT !.op = "signCert",
                                             !.cacert_path = cacert_path,
                                             !.capkey_path = capkey_path,
                                             !.thrown = r.thrown,
                                             !.before = certificate.x]
           /\ caSigned' = (caSigned \/ ~r.thrown)
  /\ UNCHANGED <<genCall, keyVars, sigVars, hashVars, tagVars, p12Vars, handleVars>>

CallSerializeCert ==
  /\ certificate.exists
  /\ LET r == serializeCert(certificate.x)
     IN  /\ certificate' = [certificate EXCEPT !.x = r.x]
         /\ lastCall' = [NoLastCall EXCEPT !.op = "serializeCert", !.thrown = r.thrown,
                                           !.before = certificate.x, !.pkey = r.pkey,
                                           !.cert = r.cert]
  /\ UNCHANGED <<genCall, caSigned, keyVars, sigVars, hashVars, tagVars, p12Vars, handleVars>>

NextCert ==
  \/ CallGenerateCert
  \/ CallSignCert
  \/ CallSerializeCert

SpecCert == Init /\ [][NextCert]_vars

\* The entries of a subject name made of the non-empty ones of the values
\* given, in the order C, ST, O, CN.
RECURSIVE SubjectOf(_, _)
SubjectOf(fields, values) ==
  IF fields = <<>> THEN <<>>
  ELSE (IF Head(values) = <<>> THEN <<>>
        ELSE <<[field |-> Head(fields), value |-> Head(values)]>>)
         \o SubjectOf(Tail(fields), Tail(values))

\* C13: generateCert called with an empty common name returns no
\* certificate, whatever the other arguments are, while with a common name
\* and an empty country, state or organisation it returns a certificate
\* whose subject has no entry for the empty ones.
C13_EmptyCommonNameFails ==
  genCall.called =>
    /\ genCall.cert_cn = <<>> =>
         /\ genCall.outcome \in {"thrown", "aborted"}
         /\ ~certificate.exists
    /\ (/\ genCall.cert_cn # <<>>
        /\ genCall.cert_c \in {<<>>, <<68, 69>>}
        /\ genCall.rsa_bits >= 31
        /\ genCall.seeded) =>
         /\ genCall.outcome = "returned"
         /\ certificate.x.subject =
              SubjectOf(<<"C", "ST", "O", "CN">>,
                        <<genCall.cert_c, genCall.cert_st, genCall.cert_o, genCall.cert_cn>>)

\* C13 witness: generateCert was called with an empty common name and
\* otherwise valid, non-empty arguments, and failed.
C13_Witness ==
  /\ genCall.called
  /\ genCall.cert_cn = <<>>
  /\ genCall.cert_c = <<68, 69>>
  /\ genCall.cert_st # <<>>
  /\ genCall.cert_o # <<>>
  /\ genCall.rsa_bits = 2048
  /\ genCall.seeded
  /\ genCall.ndebug
  /\ genCall.outcome = "thrown"
  /\ ~certificate.exists

----------------------------------------------------------------------------
(* Crypto::parseP12.                                                        *)

MaxCaCerts == 2

\* PKCS12_parse(p12, password, &pk, &x509c, &cacs): 0 when the password
\* is not the container's.
PKCS12_parse(p12, password) == IF password = p12.password THEN 1 ELSE 0

\* PEM_write_bio_PrivateKey
PEM_write_bio_PrivateKey(pkey) ==
  IF pkey.rsa THEN <<PemPriv(pkey.bits, pkey.id), 10>> ELSE <<PemPrivOther(pkey.id), 10>>

\* The for loop of parseP12 from CA certificate i on: each certificate is
\* written to ca_sink and to cert_sink.
RECURSIVE caLoop(_, _, _, _)
caLoop(ca_certs, i, ca_sink, cert_sink) ==
  IF i > Len(ca_certs) THEN [ca_sink |-> ca_sink, cert_sink |-> cert_sink]
  ELSE caLoop(ca_certs, i + 1, ca_sink \o PEM_write_bio_X509(ca_certs[i]),
              cert_sink \o PEM_write_bio_X509(ca_certs[i]))

\* parseP12 writing the CA certificates to ca_sink only.
parseP12_LeafOnly(p12, p12_password, nomem, out) ==
  IF ~p12.parsable \/ PKCS12_parse(p12, p12_password) = 0 \/ nomem # "none"
  THEN [out EXCEPT !.ret = FALSE]
  ELSE [ret |-> TRUE, out_pkey |-> PEM_write_bio_PrivateKey(p12.pkey),
        out_cert |-> PEM_write_bio_X509(p12.cert),
        out_ca |-> caLoop(p12.ca, 1, <<>>, <<>>).ca_sink]

\* Crypto::parseP12.  p12 is what p12_bio holds, nomem names the BIO_new
\* call that returns null ("none" when all succeed), out holds the values
\* of *out_pkey, *out_cert and *out_ca before the call.
parseP12(p12, p12_password, nomem, out) ==
  LET pkey_pem == PEM_write_bio_PrivateKey(p12.pkey)
      sinks    == caLoop(p12.ca, 1, <<>>, PEM_write_bio_X509(p12.cert))
  IN  IF ~p12.parsable THEN [out EXCEPT !.ret = FALSE]
      ELSE IF PKCS12_parse(p12, p12_password) = 0 THEN [out EXCEPT !.ret = FALSE]
      ELSE IF nomem = "pkey_pem_sink" THEN [out EXCEPT !.ret = FALSE]
      ELSE IF nomem \in {"cert_sink", "ca_sink"}
      THEN [out EXCEPT !.ret = FALSE, !.out_pkey = pkey_pem]
      ELSE [ret |-> TRUE, out_pkey |-> pkey_pem, out_cert |-> sinks.cert_sink,
            out_ca |-> sinks.ca_sink]

\* Lists of up to n CA certificates.
RECURSIVE CaLists(_)
CaLists(n) ==
  IF n = 0 THEN {<<>>}
  ELSE LET shorter == CaLists(n - 1)
       IN  shorter \cup {Append(l, CaCert(id)) : l \in {x \in shorter : Len(x) = n - 1},
                                                 id \in KeyIds}

\* PKCS#12 containers: unreadable ones, and readable ones with password
\* "p", a private key, its unsigned certificate and a list of CA
\* certificates.
Containers ==
  {[parsable |-> ok, password |-> <<112>>, pkey |-> RsaKey(2048, id),
    cert |-> [X509_new EXCEPT !.subject = <<[field |-> "CN", value |-> <<110>>]>>,
                              !.pubkey = RsaKey(2048, id)],
    ca |-> ca] : ok \in BOOLEAN, id \in KeyIds, ca \in CaLists(MaxCaCerts)}

CallParseP12 ==
  /\ ~p12Call.called
  /\ \E p12 \in Containers, p12_password \in {<<112>>, <<113>>},
        nomem \in {"none", "pkey_pem_sink", "cert_sink", "ca_sink"} :
       LET r == parseP12(p12, p12_password, nomem,
                         [ret |-> FALSE, out_pkey |-> <<>>, out_cert |-> <<>>,
                          out_ca |-> <<>>])
       IN  p12Call' = [called |-> TRUE, p12 |-> p12, p12_password |-> p12_password,
                       nomem |-> nomem, ret |-> r.ret, out_pkey |-> r.out_pkey,
                       out_cert |-> r.out_cert, out_ca |-> r.out_ca]
  /\ UNCHANGED <<keyVars, sigVars, hashVars, tagVars, certVars, handleVars>>

NextP12 == CallParseP12

SpecP12 == Init /\ [][NextP12]_vars

\* C14: when parseP12 returns true, *out_ca holds the PEM of the bundle's
\* CA certificates in order, *out_cert the PEM of the leaf certificate
\* followed by exactly *out_ca, and *out_pkey the PEM of the private key;
\* for an unreadable container or a wrong password it returns false.
C14_CertIsLeafThenChain ==
  p12Call.called =>
    /\ p12Call.ret =>
         /\ Len(p12Call.out_ca) = Len(p12Call.p12.ca)
         /\ \A i \in 1..Len(p12Call.p12.ca) :
              p12Call.out_ca[i] = CertBlock(p12Call.p12.ca[i])
         /\ p12Call.out_cert = <<CertBlock(p12Call.p12.cert)>> \o p12Call.out_ca
         /\ PEM_read_bio_PrivateKey(p12Call.out_pkey) = p12Call.p12.pkey
    /\ (~p12Call.p12.parsable \/ p12Call.p12_password # p12Call.p12.password) =>
         ~p12Call.ret

\* C14 witness: a container with two different CA certificates was parsed.
C14_Witness ==
  /\ p12Call.called
  /\ p12Call.ret
  /\ Len(p12Call.p12.ca) = 2
  /\ p12Call.p12.ca[1] # p12Call.p12.ca[2]
  /\ Len(p12Call.out_cert) = 3
  /\ p12Call.out_cert[3] = CertBlock(p12Call.p12.ca[2])

----------------------------------------------------------------------------
(* Native handles: who owns each handle while generateRSAKeyPairEVP(int),   *)
(* the engine branch of RSAPSSSign and parseP12 run and when they are left. *)

\* A handle comes to life owned by a StructGuard ("guard"), by another
\* handle (its name), by the value returned ("caller") or by "nobody".
Acquire(h, name, owner) == [h EXCEPT ![name] = [live |-> TRUE, frees |-> 0, owner |-> owner]]

\* The free function called on a handle: it releases the handle and the
\* handles that handle owns.
Free(h, name) ==
  [n \in HandleNames |->
     IF n = name \/ (h[n].live /\ h[n].owner = name)
     THEN [live |-> FALSE, frees |-> h[n].frees + 1, owner |-> "none"]
     ELSE h[n]]

\* The StructGuard objects of each function in the order of declaration.
Guards(fn) ==
  CASE fn = "generateRSAKeyPairEVP" -> <<"bne", "rsa", "pkey">>
    [] fn = "RSAPSSSign" -> <<"pkey", "rsa">>
    [] fn = "parseP12" -> <<"p12", "pkey", "x509_cert", "ca_certs", "sink">>
    [] OTHER -> <<>>

\* The guards of the running function that still hold a handle.
Holding == {i \in 1..Len(Guards(frame.fn)) :
              /\ handles[Guards(frame.fn)[i]].live
              /\ handles[Guards(frame.fn)[i]].owner = "guard"}

\* The function is left, by return or throw: its guards are then destroyed.
Leaving(how) == [frame EXCEPT !.pc = "unwind", !.left = how]

At(pc) == [frame EXCEPT !.pc = pc]

\* Modulus sizes asked of generateRSAKeyPairEVP.
EvpBits == {30, 31, 2048, 3072, 4096}

\* generateRSAKeyPairEVP(bits): the size check and the RAND_status /
\* RAND_poll check.
EvpEnter ==
  /\ frame.pc = "idle"
  /\ \E bits \in EvpBits, seeded \in BOOLEAN :
       frame' = [fn |-> "generateRSAKeyPairEVP", arg |-> bits,
                 pc |-> IF bits < 31 \/ ~seeded THEN "unwind" ELSE "BN_new",
                 left |-> IF bits < 31 \/ ~seeded THEN "thrown" ELSE "none"]
  /\ UNCHANGED <<handles, keyVars, sigVars, hashVars, tagVars, certVars, p12Vars>>

\* bne(BN_new(), BN_free) and BN_set_word
EvpExponent ==
  /\ frame.fn = "generateRSAKeyPairEVP"
  /\ frame.pc = "BN_new"
  /\ handles' = Acquire(handles, "bne", "guard")
  /\ \E ok \in BOOLEAN : frame' = IF ok THEN At("RSA_new") ELSE Leaving("thrown")
  /\ UNCHANGED <<keyVars, sigVars, hashVars, tagVars, certVars, p12Vars>>

\* rsa(RSA_new(), RSA_free) and RSA_generate_key_ex
EvpGenerate ==
  /\ frame.fn = "generateRSAKeyPairEVP"
  /\ frame.pc = "RSA_new"
  /\ handles' = Acquire(handles, "rsa", "guard")
  /\ \E ok \in BOOLEAN : frame' = IF ok THEN At("EVP_PKEY_new") ELSE Leaving("thrown")
  /\ UNCHANGED <<keyVars, sigVars, hashVars, tagVars, certVars, p12Vars>>

\* pkey(EVP_PKEY_new(), EVP_PKEY_free) and the test for null
EvpNewPkey ==
  /\ frame.fn = "generateRSAKeyPairEVP"
  /\ frame.pc = "EVP_PKEY_new"
  /\ \E ok \in BOOLEAN :
       IF ok THEN /\ handles' = Acquire(handles, "pkey", "guard")
                  /\ frame' = At("EVP_PKEY_assign_RSA")
       ELSE /\ handles' = handles
            /\ frame' = Leaving("thrown")
  /\ UNCHANGED <<keyVars, sigVars, hashVars, tagVars, certVars, p12Vars>>

\* EVP_PKEY_assign_RSA(pkey.get(), rsa.release()): the guard gives the RSA
\* up; the EVP_PKEY owns it only if the assignment succeeds.  Then
\* return pkey, or throw.
EvpAssign ==
  /\ frame.fn = "generateRSAKeyPairEVP"
  /\ frame.pc = "EVP_PKEY_assign_RSA"
  /\ \E ok \in BOOLEAN :
       IF ok THEN /\ handles' = [handles EXCEPT !["rsa"].owner = "pkey",
                                                !["pkey"].owner = "caller"]
                  /\ frame' = Leaving("returned")
       ELSE /\ handles' = [handles EXCEPT !["rsa"].owner = "nobody"]
            /\ frame' = Leaving("thrown")
  /\ UNCHANGED <<keyVars, sigVars, hashVars, tagVars, certVars, p12Vars>>

\* RSAPSSSign with an engine: key.reset(ENGINE_load_private_key(...)) and
\* the test for null.
SignLoadKey ==
  /\ frame.pc = "idle"
  /\ \E loaded \in BOOLEAN :
       IF loaded THEN /\ handles' = Acquire(handles, "pkey", "guard")
                      /\ frame' = [fn |-> "RSAPSSSign", arg |-> 1,
                                   pc |-> "EVP_PKEY_get1_RSA", left |-> "none"]
       ELSE /\ handles' = handles
            /\ frame' = [fn |-> "RSAPSSSign", arg |-> 1, pc |-> "unwind",
                         left |-> "returned"]
  /\ UNCHANGED <<keyVars, sigVars, hashVars, tagVars, certVars, p12Vars>>

\* rsa.reset(EVP_PKEY_get1_RSA(key.get())), the test for null, and the rest
\* of the function up to its return.
SignGetRsa ==
  /\ frame.fn = "RSAPSSSign"
  /\ frame.pc = "EVP_PKEY_get1_RSA"
  /\ \E ok \in BOOLEAN :
       handles' = IF ok THEN Acquire(handles, "rsa", "guard") ELSE handles
  /\ frame' = Leaving("returned")
  /\ UNCHANGED <<keyVars, sigVars, hashVars, tagVars, certVars, p12Vars>>

\* parseP12: p12(d2i_PKCS12_bio(p12_bio, nullptr), PKCS12_free) and the
\* test for null.  arg is the number of CA certificates in the container.
P12Read ==
  /\ frame.pc = "idle"
  /\ \E read \in BOOLEAN, n \in 0..MaxCaCerts :
       IF read THEN /\ handles' = Acquire(handles, "p12", "guard")
                    /\ frame' = [fn |-> "parseP12", arg |-> n, pc |-> "PKCS12_parse",
                                 left |-> "none"]
       ELSE /\ handles' = handles
            /\ frame' = [fn |-> "parseP12", arg |-> n, pc |-> "unwind",
                         left |-> "returned"]
  /\ UNCHANGED <<keyVars, sigVars, hashVars, tagVars, certVars, p12Vars>>

\* PKCS12_parse and the three reset calls: on failure nothing was handed
\* out, on success the key, the certificate and the stack go to the guards.
P12Parse ==
  /\ frame.fn = "parseP12"
  /\ frame.pc = "PKCS12_parse"
  /\ \E ok \in BOOLEAN :
       IF ok THEN /\ handles' = Acquire(Acquire(Acquire(handles, "pkey", "guard"),
                                                "x509_cert", "guard"), "ca_certs", "guard")
                  /\ frame' = At("BIO_new")
       ELSE /\ handles' = handles
            /\ frame' = Leaving("returned")
  /\ UNCHANGED <<keyVars, sigVars, hashVars, tagVars, certVars, p12Vars>>

\* The BIO_new(BIO_s_mem()) sinks, the writes, and the return.
P12Write ==
  /\ frame.fn = "parseP12"
  /\ frame.pc = "BIO_new"
  /\ \E ok \in BOOLEAN :
       handles' = IF ok THEN Acquire(handles, "sink", "guard") ELSE handles
  /\ frame' = Leaving("returned")
  /\ UNCHANGED <<keyVars, sigVars, hashVars, tagVars, certVars, p12Vars>>

\* ~StructGuard: the guard declared last that still holds a handle
\* releases it.
StructGuardDestructor ==
  /\ frame.pc = "unwind"
  /\ Holding # {}
  /\ handles' = Free(handles, Guards(frame.fn)[Max(Holding)])
  /\ UNCHANGED <<frame, keyVars, sigVars, hashVars, tagVars, certVars, p12Vars>>

\* All guards are destroyed: control is back in the caller.
BackInCaller ==
  /\ frame.pc = "unwind"
  /\ Holding = {}
  /\ frame' = At("exit")
  /\ UNCHANGED <<handles, keyVars, sigVars, hashVars, tagVars, certVars, p12Vars>>

NextHandle ==
  \/ EvpEnter
  \/ EvpExponent
  \/ EvpGenerate
  \/ EvpNewPkey
  \/ EvpAssign
  \/ SignLoadKey
  \/ SignGetRsa
  \/ P12Read
  \/ P12Parse
  \/ P12Write
  \/ StructGuardDestructor
  \/ BackInCaller

SpecHandle == Init /\ [][NextHandle]_vars

\* The handle is owned by the value the function returned, directly or
\* through the handle that owns it.
OwnedByReturnValue(n) ==
  \/ handles[n].owner = "caller"
  \/ /\ handles[n].owner \in HandleNames
     /\ handles[handles[n].owner].live
     /\ handles[handles[n].owner].owner = "caller"

\* C15: when a function is left, every handle it acquired has been released
\* exactly once or is owned by the value returned.
C15_HandlesReleasedOrReturned ==
  frame.pc = "exit" =>
    \A n \in HandleNames :
      /\ handles[n].frees <= 1
      /\ handles[n].live => (frame.left = "returned" /\ OwnedByReturnValue(n))
      /\ (~handles[n].live /\ handles[n].frees = 0) => handles[n].owner = "none"

----------------------------------------------------------------------------
(* Claims about the certificate's issuer and signature, under SpecCert.     *)

\* The CA certificate and CA private key the files of the last call hold.
CaOfLastCall == PEM_read_bio_X509(lastCall.cacert_path.content)

CaKeyOfLastCall == PEM_read_bio_PrivateKey(lastCall.capkey_path.content)

\* C16: the certificate is signed only if generateCert self-signed it or a
\* signCert call completed; generateCert returns it signed exactly when
\* self_sign is true; a completed signCert leaves the issuer equal to the
\* CA certificate's subject and a signature made with the CA key over that
\* issuer; serializeCert leaves the certificate as it was.
C16_CertificateLifecycle ==
  certificate.exists =>
    /\ certificate.x.sig.signed => (genCall.self_sign \/ caSigned)
    /\ lastCall.op = "generateCert" =>
         /\ certificate.x.sig.signed <=> genCall.self_sign
         /\ genCall.self_sign => X509_verify(certificate.x, certificate.x.pubkey)
    /\ (lastCall.op = "signCert" /\ ~lastCall.thrown) =>
         /\ certificate.x.issuer = CaOfLastCall.x.subject
         /\ certificate.x.sig.issuer = CaOfLastCall.x.subject
         /\ X509_verify(certificate.x, CaKeyOfLastCall)
    /\ lastCall.op = "serializeCert" => certificate.x = lastCall.before

\* C16 witness: a certificate generated unsigned was signed by a CA and then
\* serialized, and carries the CA's signature over the CA's name.
C16_Witness ==
  /\ certificate.exists
  /\ ~genCall.self_sign
  /\ caSigned
  /\ lastCall.op = "serializeCert"
  /\ ~lastCall.thrown
  /\ certificate.x.sig.signed
  /\ certificate.x.issuer # <<>>
  /\ certificate.x.sig.issuer = certificate.x.issuer
  /\ lastCall.cert = <<CertBlock(certificate.x)>>

\* The CA certificate file or the CA private-key file of the last call
\* cannot be read or holds no PEM block of its kind.
CaFilesUnparsable ==
  \/ ~lastCall.cacert_path.exists
  \/ CaOfLastCall.null
  \/ ~lastCall.capkey_path.exists
  \/ CaKeyOfLastCall.null

\* C17: signCert called with a CA certificate file or CA private-key file
\* that cannot be parsed throws and leaves the certificate's issuer and
\* signature as they were, so a certificate that verified under its own key
\* before the call still does.
C17_FailedSignCertChangesNothing ==
  (lastCall.op = "signCert" /\ CaFilesUnparsable) =>
    /\ lastCall.thrown
    /\ certificate.x.issuer = lastCall.before.issuer
    /\ certificate.x.sig = lastCall.before.sig
    /\ X509_verify(lastCall.before, lastCall.before.pubkey) =>
         X509_verify(certificate.x, certificate.x.pubkey)

\* C17 witness: signCert was given a CA certificate and an unparsable key
\* file for a self-signed certificate, which still verifies.
C17_Witness ==
  /\ lastCall.op = "signCert"
  /\ ~CaOfLastCall.null
  /\ lastCall.capkey_path.exists
  /\ CaKeyOfLastCall.null
  /\ lastCall.thrown
  /\ genCall.self_sign
  /\ ~caSigned
  /\ X509_verify(certificate.x, certificate.x.pubkey)

====
